---- MODULE Spec2Model ----
(***************************************************************************)
(* JKBMS library: the notification reassembler of JKBMS.cpp                *)
(* (handleNotification), the frame dispatcher and the three decoders       *)
(* (bms_settings, parseData, parseDeviceInfo), over the global device      *)
(* array jkBmsDevices of main.cpp.                                         *)
(*                                                                         *)
(* Bytes are 0..255.  Byte arrays are sequences: receivedBytes[i] and       *)
(* pData[i] of the source are receivedBytes[i + 1] and pData[i + 1] here;  *)
(* a decoder reads a buffer rb at the source's offsets through At(rb, i).  *)
(* The float fields hold a raw integer scaled by a fixed factor (0.001,    *)
(* 0.1 or 1): the model keeps the raw integer, i.e. the field in           *)
(* milli-units, tenths or units.                                           *)
(***************************************************************************)
EXTENDS Integers, Sequences, FiniteSets, TLC

\* ------------------------------------------------------------------------
\* Program constants
\* ------------------------------------------------------------------------
FrameSize == 300
BufferSize == 320
MinHeader == 4
ThrottleArm == 10
DeviceInfoSize == 134
bmsDeviceCount == 1
CommandSize == 20
CrcLen == 19

\* A null pointer; a characteristic pointer is a positive number.
nullptr == 0

StartSeq == <<85, 170, 235, 144>>

\* ------------------------------------------------------------------------
\* Bounds of the model
\* ------------------------------------------------------------------------
\* Frame type bytes 1..MaxType are sent: 1..3 are decoded, the others are not.
MaxType == 4
\* The offset at which the transport splits a frame into two notifications.
SplitAt == 150
\* The longest notification: a frame followed by the first bytes of the next.
MaxChunkLen == 304
\* The number of notifications a frame is followed over from construction.
MaxSplit == 2
\* The number of frames the BMS sends one after the other in SpecDecode.
SweepLen == 771
\* The length of a short first notification of a frame in SpecDecode.
HeadLen == 20

\* ------------------------------------------------------------------------
\* Integer helpers (C integer semantics of the decoders)
\* ------------------------------------------------------------------------
Min(a, b) == IF a < b THEN a ELSE b

\* Mutant: the two bytes of a pair are exchanged.
U16_Swapped(hi, lo) == lo * 256 + hi

\* (hi << 8 | lo) on bytes promoted to int.
U16(hi, lo) == hi * 256 + lo

\* Mutant: bit 7 of the top byte is dropped, as in an unsigned 31-bit read.
S32_MasksSign(b3, b2, b1, b0) ==
    (b3 % 128) * 16777216 + b2 * 65536 + b1 * 256 + b0

\* (b3 << 24 | b2 << 16 | b1 << 8 | b0) on bytes promoted to a 32-bit int:
\* bit 7 of b3 lands in the sign bit.
S32(b3, b2, b1, b0) ==
    (IF b3 >= 128 THEN b3 - 256 ELSE b3) * 16777216 + b2 * 65536 + b1 * 256 + b0

\* rb[i] of the source, for a buffer rb.
At(rb, i) == rb[i + 1]

\* Mutant: the group is read with its first byte as the most significant.
LE32_BigEndian(rb, i) ==
    S32(At(rb, i), At(rb, i + 1), At(rb, i + 2), At(rb, i + 3))

\* The 4-byte little-endian group at offset i of a buffer.
LE32(rb, i) == S32(At(rb, i + 3), At(rb, i + 2), At(rb, i + 1), At(rb, i))

\* Mutant: the pair is read as a 16-bit two's-complement value.
Temp16_SignExtends(hi, lo) ==
    IF hi >= 128 THEN S32(255, 255, hi, lo) ELSE U16(hi, lo)

\* The 16-bit temperature rule of parseData.
Temp16(hi, lo) ==
    IF hi = 255 THEN S32(255, 255, hi, lo) ELSE U16(hi, lo)

\* ------------------------------------------------------------------------
\* JKBMS::JKBMS and the in-class initialisers
\* ------------------------------------------------------------------------
SettingsInit ==
    [ cell_voltage_undervoltage_protection |-> 0,
      cell_voltage_undervoltage_recovery |-> 0,
      cell_voltage_overvoltage_protection |-> 0,
      cell_voltage_overvoltage_recovery |-> 0,
      balance_trigger_voltage |-> 0,
      power_off_voltage |-> 0,
      max_charge_current |-> 0,
      charge_overcurrent_protection_delay |-> 0,
      charge_overcurrent_protection_recovery_time |-> 0,
      max_discharge_current |-> 0,
      discharge_overcurrent_protection_delay |-> 0,
      discharge_overcurrent_protection_recovery_time |-> 0,
      short_circuit_protection_recovery_time |-> 0,
      max_balance_current |-> 0,
      charge_overtemperature_protection |-> 0,
      charge_overtemperature_protection_recovery |-> 0,
      discharge_overtemperature_protection |-> 0,
      discharge_overtemperature_protection_recovery |-> 0,
      charge_undertemperature_protection |-> 0,
      charge_undertemperature_protection_recovery |-> 0,
      power_tube_overtemperature_protection |-> 0,
      power_tube_overtemperature_protection_recovery |-> 0,
      cell_count |-> 0,
      total_battery_capacity |-> 0,
      short_circuit_protection_delay |-> 0,
      balance_starting_voltage |-> 0 ]

\* Battery_Power is the product of two floats; the model keeps the two
\* factors <<Battery_Voltage, Charge_Current>>.
DataInit ==
    [ cellVoltage |-> [j \in 0..15 |-> 0],
      wireResist |-> [j \in 0..15 |-> 0],
      Average_Cell_Voltage |-> 0,
      Delta_Cell_Voltage |-> 0,
      Battery_Voltage |-> 0,
      Battery_Power |-> <<0, 0>>,
      Charge_Current |-> 0,
      Battery_T1 |-> 0,
      Battery_T2 |-> 0,
      MOS_Temp |-> 0,
      Percent_Remain |-> 0,
      Capacity_Remain |-> 0,
      Nominal_Capacity |-> 0,
      Cycle_Count |-> 0,
      Cycle_Capacity |-> 0,
      Uptime |-> 0,
      sec |-> 0,
      mi |-> 0,
      hr |-> 0,
      days |-> 0,
      Balance_Curr |-> 0,
      Balance |-> FALSE,
      Charge |-> FALSE,
      Discharge |-> FALSE,
      Balancing_Action |-> 0 ]

\* The device object after construction.  data and settings group the
\* "BMS Data Fields" and the "BMS Settings" members of the class.
NewJKBMS ==
    [ pChr |-> nullptr,
      advDevice |-> nullptr,
      doConnect |-> FALSE,
      connected |-> FALSE,
      lastNotifyTime |-> 0,
      frame |-> 0,
      received_start |-> FALSE,
      received_complete |-> FALSE,
      new_data |-> FALSE,
      ignoreNotifyCount |-> 0,
      receivedBytes |-> [k \in 1..BufferSize |-> 0],
      data |-> DataInit,
      settings |-> SettingsInit ]

\* Mutant: the settings decoder arms the throttle as the cell-data decoder
\* does.
bms_settings_ArmsThrottle(d) ==
    [d EXCEPT !.ignoreNotifyCount = ThrottleArm]


\* ------------------------------------------------------------------------
\* JKBMS::bms_settings
\* ------------------------------------------------------------------------
bms_settings(d) ==
    LET rb == d.receivedBytes IN
    [d EXCEPT !.settings =
        [ cell_voltage_undervoltage_protection |-> LE32(rb, 10),
          cell_voltage_undervoltage_recovery |-> LE32(rb, 14),
          cell_voltage_overvoltage_protection |-> LE32(rb, 18),
          cell_voltage_overvoltage_recovery |-> LE32(rb, 22),
          balance_trigger_voltage |-> LE32(rb, 26),
          power_off_voltage |-> LE32(rb, 46),
          max_charge_current |-> LE32(rb, 50),
          charge_overcurrent_protection_delay |-> LE32(rb, 54),
          charge_overcurrent_protection_recovery_time |-> LE32(rb, 58),
          max_discharge_current |-> LE32(rb, 62),
          discharge_overcurrent_protection_delay |-> LE32(rb, 66),
          discharge_overcurrent_protection_recovery_time |-> LE32(rb, 70),
          short_circuit_protection_recovery_time |-> LE32(rb, 74),
          max_balance_current |-> LE32(rb, 78),
          charge_overtemperature_protection |-> LE32(rb, 82),
          charge_overtemperature_protection_recovery |-> LE32(rb, 86),
          discharge_overtemperature_protection |-> LE32(rb, 90),
          discharge_overtemperature_protection_recovery |-> LE32(rb, 94),
          charge_undertemperature_protection |-> LE32(rb, 98),
          charge_undertemperature_protection_recovery |-> LE32(rb, 102),
          power_tube_overtemperature_protection |-> LE32(rb, 106),
          power_tube_overtemperature_protection_recovery |-> LE32(rb, 110),
          cell_count |-> LE32(rb, 114),
          total_battery_capacity |-> LE32(rb, 130),
          short_circuit_protection_delay |-> LE32(rb, 134),
          balance_starting_voltage |-> LE32(rb, 138) ]]

\* ------------------------------------------------------------------------
\* JKBMS::parseDeviceInfo
\* ------------------------------------------------------------------------
\* The locals parseDeviceInfo fills from the buffer once 134 bytes are
\* there: byte ranges as sequences, and the two 32-bit groups (the model
\* holds their bit pattern as a signed value).  They are printed and go out
\* of scope with the call; the class has no member for them.
DeviceInfoLocals(rb) ==
    [ vendorID |-> SubSeq(rb, 7, 22),
      hardwareVersion |-> SubSeq(rb, 23, 30),
      softwareVersion |-> SubSeq(rb, 31, 38),
      uptime |-> LE32(rb, 38),
      powerOnCount |-> LE32(rb, 42),
      deviceName |-> SubSeq(rb, 47, 62),
      devicePasscode |-> SubSeq(rb, 63, 78),
      manufacturingDate |-> SubSeq(rb, 79, 86),
      serialNumber |-> SubSeq(rb, 87, 97),
      passcode |-> SubSeq(rb, 98, 102),
      userData |-> SubSeq(rb, 103, 118),
      setupPasscode |-> SubSeq(rb, 119, 134) ]

\* Mutant: parseDeviceInfo does not clear new_data.
parseDeviceInfo_KeepsNewData(d) == d


\* new_data is cleared first; with fewer than 134 bytes the function returns
\* there, otherwise it reads the identity fields into locals and prints
\* them: on either path new_data is the only member written.
parseDeviceInfo(d) ==
    LET t == [d EXCEPT !.new_data = FALSE] IN
    IF t.frame < DeviceInfoSize THEN t ELSE t

\* ------------------------------------------------------------------------
\* JKBMS::parseData
\* ------------------------------------------------------------------------
\* Mutant: a sign nibble other than 0x0 and 0xF zeroes the field.
BalanceCurr_UndefinedZero(prev, hi, lo) ==
    IF hi \div 16 = 0 THEN U16(hi, lo)
    ELSE IF hi \div 16 = 15 THEN 0 - U16(hi % 16, lo)
    ELSE 0

\* Mutant: the sign nibble 0xF is masked off and the value stays positive.
BalanceCurr_SignDropped(prev, hi, lo) ==
    IF hi \div 16 = 0 THEN U16(hi, lo)
    ELSE IF hi \div 16 = 15 THEN U16(hi % 16, lo)
    ELSE prev

\* The balancing current: written only for sign nibble 0x0 or 0xF.
BalanceCurr(prev, hi, lo) ==
    IF hi \div 16 = 0 THEN U16(hi, lo)
    ELSE IF hi \div 16 = 15 THEN 0 - U16(hi % 16, lo)
    ELSE prev

\* Mutant: the second division by 60 is missing, so hours and days are taken
\* from the minute count.
UptimeFields_OneDivision(v) ==
    [ Uptime |-> v \div 60,
      sec |-> (v % 60) % 256,
      mi |-> ((v \div 60) % 60) % 256,
      hr |-> ((v \div 60) % 24) % 256,
      days |-> ((v \div 60) \div 24) % 256 ]

\* Mutant: the decomposition works on a copy, Uptime keeps the seconds.
UptimeFields_KeepsSeconds(v) ==
    [ Uptime |-> v,
      sec |-> (v % 60) % 256,
      mi |-> ((v \div 60) % 60) % 256,
      hr |-> (((v \div 60) \div 60) % 24) % 256,
      days |-> (((v \div 60) \div 60) \div 24) % 256 ]

\* Uptime and its decomposition: the member Uptime is divided in place, and
\* sec, mi, hr, days are uint8_t.
UptimeFields(v) ==
    [ Uptime |-> (v \div 60) \div 60,
      sec |-> (v % 60) % 256,
      mi |-> ((v \div 60) % 60) % 256,
      hr |-> (((v \div 60) \div 60) % 24) % 256,
      days |-> (((v \div 60) \div 60) \div 24) % 256 ]

\* The telemetry fields parseData computes from the buffer.
CellData(d) ==
    LET rb == d.receivedBytes
        volt == LE32(rb, 150)
        curr == LE32(rb, 158)
        up == UptimeFields(At(rb, 196) * 65536 + At(rb, 195) * 256 + At(rb, 194))
    IN
    [ cellVoltage |-> [j \in 0..15 |-> U16(At(rb, 7 + 2 * j), At(rb, 6 + 2 * j))],
      wireResist |-> [j \in 0..15 |-> U16(At(rb, 81 + 2 * j), At(rb, 80 + 2 * j))],
      Average_Cell_Voltage |-> U16(At(rb, 75), At(rb, 74)),
      Delta_Cell_Voltage |-> U16(At(rb, 77), At(rb, 76)),
      Battery_Voltage |-> volt,
      Battery_Power |-> <<volt, curr>>,
      Charge_Current |-> curr,
      Battery_T1 |-> Temp16(At(rb, 163), At(rb, 162)),
      Battery_T2 |-> Temp16(At(rb, 165), At(rb, 164)),
      MOS_Temp |-> Temp16(At(rb, 145), At(rb, 144)),
      Percent_Remain |-> At(rb, 173),
      Capacity_Remain |-> LE32(rb, 174),
      Nominal_Capacity |-> LE32(rb, 178),
      Cycle_Count |-> LE32(rb, 182),
      Cycle_Capacity |-> LE32(rb, 186),
      Uptime |-> up.Uptime,
      sec |-> up.sec,
      mi |-> up.mi,
      hr |-> up.hr,
      days |-> up.days,
      Balance_Curr |-> BalanceCurr(d.data.Balance_Curr, At(rb, 171), At(rb, 170)),
      Balance |-> At(rb, 201) > 0,
      Charge |-> At(rb, 198) > 0,
      Discharge |-> At(rb, 199) > 0,
      Balancing_Action |-> At(rb, 172) ]

\* Mutant: the decoder arms the throttle one short.
parseData_ArmsNine(d) ==
    [d EXCEPT !.new_data = FALSE,
              !.ignoreNotifyCount = ThrottleArm - 1,
              !.data = CellData(d)]

parseData(d) ==
    [d EXCEPT !.new_data = FALSE,
              !.ignoreNotifyCount = ThrottleArm,
              !.data = CellData(d)]

\* ------------------------------------------------------------------------
\* JKBMS::handleNotification
\* ------------------------------------------------------------------------
\* pData[0..3] == 55 AA EB 90 (the caller has checked length >= 4).
IsStart(pData) ==
    /\ pData[1] = StartSeq[1]
    /\ pData[2] = StartSeq[2]
    /\ pData[3] = StartSeq[3]
    /\ pData[4] = StartSeq[4]

\* Mutant: the copy loop has no frame < 300 test.
StoreBytes_NoBound(d, pData) ==
    LET n == Len(pData) IN
    IF n <= 0 THEN d
    ELSE [d EXCEPT
            !.receivedBytes =
                SubSeq(d.receivedBytes, 1, d.frame)
                    \o SubSeq(pData, 1, n)
                    \o SubSeq(d.receivedBytes, d.frame + n + 1, BufferSize),
            !.frame = d.frame + n]

\* Mutant: the copy loop is bounded by the buffer, not by the frame.
StoreBytes_UpToBuffer(d, pData) ==
    LET n == Min(Len(pData), BufferSize - d.frame) IN
    IF n <= 0 THEN d
    ELSE [d EXCEPT
            !.receivedBytes =
                SubSeq(d.receivedBytes, 1, d.frame)
                    \o SubSeq(pData, 1, n)
                    \o SubSeq(d.receivedBytes, d.frame + n + 1, BufferSize),
            !.frame = d.frame + n]

\* for (i = 0; i < length && frame < 300; i++) receivedBytes[frame++] = pData[i]
\* copies n = min(length, 300 - frame) bytes to frame .. frame + n - 1.
StoreBytes(d, pData) ==
    LET n == Min(Len(pData), FrameSize - d.frame) IN
    IF n <= 0 THEN d
    ELSE [d EXCEPT
            !.receivedBytes =
                SubSeq(d.receivedBytes, 1, d.frame)
                    \o SubSeq(pData, 1, n)
                    \o SubSeq(d.receivedBytes, d.frame + n + 1, BufferSize),
            !.frame = d.frame + n]

\* Mutant: the default case falls into the cell-data decoder.
Dispatch_DefaultParses(d) ==
    LET type == At(d.receivedBytes, 4) IN
    IF type = 1 THEN [dev |-> bms_settings(d), decoder |-> "bms_settings"]
    ELSE IF type = 3 THEN [dev |-> parseDeviceInfo(d), decoder |-> "parseDeviceInfo"]
    ELSE [dev |-> parseData(d), decoder |-> "parseData"]

\* Mutant: the switch has a case 0x04 that runs the device-info decoder.
Dispatch_CaseFour(d) ==
    LET type == At(d.receivedBytes, 4) IN
    IF type = 1 THEN [dev |-> bms_settings(d), decoder |-> "bms_settings"]
    ELSE IF type = 2 THEN [dev |-> parseData(d), decoder |-> "parseData"]
    ELSE IF type \in {3, 4}
    THEN [dev |-> parseDeviceInfo(d), decoder |-> "parseDeviceInfo"]
    ELSE [dev |-> d, decoder |-> "none"]

\* Mutant: the cases 0x01 and 0x02 of the switch are exchanged.
Dispatch_CasesExchanged(d) ==
    LET type == At(d.receivedBytes, 4) IN
    IF type = 1 THEN [dev |-> parseData(d), decoder |-> "parseData"]
    ELSE IF type = 2 THEN [dev |-> bms_settings(d), decoder |-> "bms_settings"]
    ELSE IF type = 3 THEN [dev |-> parseDeviceInfo(d), decoder |-> "parseDeviceInfo"]
    ELSE [dev |-> d, decoder |-> "none"]

\* switch (receivedBytes[4]): the decoder that runs, and the device after it.
Dispatch(d) ==
    LET type == At(d.receivedBytes, 4) IN
    IF type = 1 THEN [dev |-> bms_settings(d), decoder |-> "bms_settings"]
    ELSE IF type = 2 THEN [dev |-> parseData(d), decoder |-> "parseData"]
    ELSE IF type = 3 THEN [dev |-> parseDeviceInfo(d), decoder |-> "parseDeviceInfo"]
    ELSE [dev |-> d, decoder |-> "none"]

\* Mutant: received_complete is not cleared when a start sequence arrives.
StartFrame_KeepsComplete(d, pData) ==
    [ dev |-> StoreBytes([d EXCEPT !.frame = 0,
                                   !.received_start = TRUE], pData),
      path |-> "start",
      decoder |-> "none",
      dispatched |-> 0 ]

\* Mutant: the cursor is not reset when a start sequence arrives.
StartFrame_NoReset(d, pData) ==
    [ dev |-> StoreBytes([d EXCEPT !.received_start = TRUE,
                                   !.received_complete = FALSE], pData),
      path |-> "start",
      decoder |-> "none",
      dispatched |-> 0 ]

\* The first branch: a notification that begins with the start sequence.
StartFrame(d, pData) ==
    [ dev |-> StoreBytes([d EXCEPT !.frame = 0,
                                   !.received_start = TRUE,
                                   !.received_complete = FALSE], pData),
      path |-> "start",
      decoder |-> "none",
      dispatched |-> 0 ]

\* The second branch: the frame is complete, and dispatched, when a byte
\* stored by this call brings frame to 300.
ContinueFrame(d, pData) ==
    LET s == StoreBytes(d, pData) IN
    IF s.frame > d.frame /\ s.frame >= FrameSize
    THEN LET r == Dispatch([s EXCEPT !.received_complete = TRUE,
                                     !.received_start = FALSE,
                                     !.new_data = TRUE])
         IN [ dev |-> r.dev, path |-> "complete", decoder |-> r.decoder,
              dispatched |-> 1 ]
    ELSE [ dev |-> s, path |-> "append", decoder |-> "none", dispatched |-> 0 ]

\* Mutant: a frame being accumulated takes every notification as payload,
\* the start sequence is looked for only when no frame is being accumulated.
handleNotification_ContinueFirst(d, pData, now) ==
    LET t == [d EXCEPT !.lastNotifyTime = now] IN
    IF d.ignoreNotifyCount > 0
    THEN [ dev |-> [t EXCEPT !.ignoreNotifyCount = d.ignoreNotifyCount - 1],
           path |-> "throttled", decoder |-> "none", dispatched |-> 0 ]
    ELSE IF Len(pData) < MinHeader
    THEN [ dev |-> t, path |-> "short", decoder |-> "none", dispatched |-> 0 ]
    ELSE IF d.received_start /\ ~d.received_complete
    THEN ContinueFrame(t, pData)
    ELSE IF IsStart(pData)
    THEN StartFrame(t, pData)
    ELSE [ dev |-> t, path |-> "ignored", decoder |-> "none", dispatched |-> 0 ]

\* Mutant: the length check guards only the start-sequence test, so a short
\* notification is appended to a frame being accumulated.
handleNotification_ShortAppended(d, pData, now) ==
    LET t == [d EXCEPT !.lastNotifyTime = now] IN
    IF d.ignoreNotifyCount > 0
    THEN [ dev |-> [t EXCEPT !.ignoreNotifyCount = d.ignoreNotifyCount - 1],
           path |-> "throttled", decoder |-> "none", dispatched |-> 0 ]
    ELSE IF Len(pData) >= MinHeader /\ IsStart(pData)
    THEN StartFrame(t, pData)
    ELSE IF d.received_start /\ ~d.received_complete
    THEN ContinueFrame(t, pData)
    ELSE [ dev |-> t, path |-> "ignored", decoder |-> "none", dispatched |-> 0 ]

\* Mutant: a throttled notification leaves the counter as it is.
handleNotification_ThrottleStuck(d, pData, now) ==
    LET t == [d EXCEPT !.lastNotifyTime = now] IN
    IF d.ignoreNotifyCount > 0
    THEN [ dev |-> t,
           path |-> "throttled", decoder |-> "none", dispatched |-> 0 ]
    ELSE IF Len(pData) < MinHeader
    THEN [ dev |-> t, path |-> "short", decoder |-> "none", dispatched |-> 0 ]
    ELSE IF IsStart(pData)
    THEN StartFrame(t, pData)
    ELSE IF d.received_start /\ ~d.received_complete
    THEN ContinueFrame(t, pData)
    ELSE [ dev |-> t, path |-> "ignored", decoder |-> "none", dispatched |-> 0 ]

\* Mutant: the continuation test reads received_start || !received_complete.
handleNotification_IdleAppends(d, pData, now) ==
    LET t == [d EXCEPT !.lastNotifyTime = now] IN
    IF d.ignoreNotifyCount > 0
    THEN [ dev |-> [t EXCEPT !.ignoreNotifyCount = d.ignoreNotifyCount - 1],
           path |-> "throttled", decoder |-> "none", dispatched |-> 0 ]
    ELSE IF Len(pData) < MinHeader
    THEN [ dev |-> t, path |-> "short", decoder |-> "none", dispatched |-> 0 ]
    ELSE IF IsStart(pData)
    THEN StartFrame(t, pData)
    ELSE IF d.received_start \/ ~d.received_complete
    THEN ContinueFrame(t, pData)
    ELSE [ dev |-> t, path |-> "ignored", decoder |-> "none", dispatched |-> 0 ]

\* The handler: the device after the call, the branch taken (path), the
\* decoder that ran and the number of times the dispatcher was entered.
handleNotification(d, pData, now) ==
    LET t == [d EXCEPT !.lastNotifyTime = now] IN
    IF d.ignoreNotifyCount > 0
    THEN [ dev |-> [t EXCEPT !.ignoreNotifyCount = d.ignoreNotifyCount - 1],
           path |-> "throttled", decoder |-> "none", dispatched |-> 0 ]
    ELSE IF Len(pData) < MinHeader
    THEN [ dev |-> t, path |-> "short", decoder |-> "none", dispatched |-> 0 ]
    ELSE IF IsStart(pData)
    THEN StartFrame(t, pData)
    ELSE IF d.received_start /\ ~d.received_complete
    THEN ContinueFrame(t, pData)
    ELSE [ dev |-> t, path |-> "ignored", decoder |-> "none", dispatched |-> 0 ]

\* ------------------------------------------------------------------------
\* JKBMS::crc
\* ------------------------------------------------------------------------
\* The loop from index i on: crc is a uint8_t, so crc += data[i] wraps.
RECURSIVE crcLoop(_, _, _, _)
crcLoop(data, len, i, sum) ==
    IF i < len
    THEN crcLoop(data, len, i + 1, (sum + data[i + 1]) % 256)
    ELSE sum

\* Mutant: the loop starts at index 1.
crc_SkipsFirst(data, len) == crcLoop(data, len, 1, 0)

crc(data, len) == crcLoop(data, len, 0, 0)

\* ------------------------------------------------------------------------
\* JKBMS::writeRegister
\* ------------------------------------------------------------------------
\* A uint32_t is held as its two 16-bit halves <<high, low>>.
\* (uint8_t)(value >> k) for k = 0, 8, 16, 24.
ShiftByte(value, k) ==
    IF k = 0 THEN value[2] % 256
    ELSE IF k = 8 THEN value[2] \div 256
    ELSE IF k = 16 THEN value[1] % 256
    ELSE value[1] \div 256

\* Mutant: the value is inserted most significant byte first.
writeRegister_BigEndian(d, address, value, length) ==
    LET initial == <<170, 85, 144, 235, address, length>>
                       \o [k \in 1..(CommandSize - 6) |-> 0]
        valued == [initial EXCEPT ![7] = ShiftByte(value, 24),
                                  ![8] = ShiftByte(value, 16),
                                  ![9] = ShiftByte(value, 8),
                                  ![10] = ShiftByte(value, 0)]
        frame == [valued EXCEPT ![CommandSize] = crc(valued, CrcLen)]
    IN [ dev |-> d, frame |-> frame,
         written |-> IF d.pChr # nullptr THEN <<frame>> ELSE <<>> ]

\* Mutant: the checksum covers the four header bytes only.
writeRegister_HeaderChecksum(d, address, value, length) ==
    LET initial == <<170, 85, 144, 235, address, length>>
                       \o [k \in 1..(CommandSize - 6) |-> 0]
        valued == [initial EXCEPT ![7] = ShiftByte(value, 0),
                                  ![8] = ShiftByte(value, 8),
                                  ![9] = ShiftByte(value, 16),
                                  ![10] = ShiftByte(value, 24)]
        frame == [valued EXCEPT ![CommandSize] = crc(valued, 4)]
    IN [ dev |-> d, frame |-> frame,
         written |-> IF d.pChr # nullptr THEN <<frame>> ELSE <<>> ]

\* Mutant: the write is made without the if (pChr) test.
writeRegister_NoNullTest(d, address, value, length) ==
    LET initial == <<170, 85, 144, 235, address, length>>
                       \o [k \in 1..(CommandSize - 6) |-> 0]
        valued == [initial EXCEPT ![7] = ShiftByte(value, 0),
                                  ![8] = ShiftByte(value, 8),
                                  ![9] = ShiftByte(value, 16),
                                  ![10] = ShiftByte(value, 24)]
        frame == [valued EXCEPT ![CommandSize] = crc(valued, CrcLen)]
    IN [ dev |-> d, frame |-> frame, written |-> <<frame>> ]

\* The local array frame[20] (it hides the member frame, which the function
\* does not touch): the initialiser, the value, the checksum of the first
\* 19 bytes; the array is written to the characteristic if pChr is set.
writeRegister(d, address, value, length) ==
    LET initial == <<170, 85, 144, 235, address, length>>
                       \o [k \in 1..(CommandSize - 6) |-> 0]
        valued == [initial EXCEPT ![7] = ShiftByte(value, 0),
                                  ![8] = ShiftByte(value, 8),
                                  ![9] = ShiftByte(value, 16),
                                  ![10] = ShiftByte(value, 24)]
        frame == [valued EXCEPT ![CommandSize] = crc(valued, CrcLen)]
    IN [ dev |-> d, frame |-> frame,
         written |-> IF d.pChr # nullptr THEN <<frame>> ELSE <<>> ]

\* ------------------------------------------------------------------------
\* The notifications the transport delivers
\* ------------------------------------------------------------------------
FrameTypes == 1..MaxType

\* Two payloads: pattern 0 differs from byte to byte, pattern 1 is all 0xFF.
Patterns == {0, 1}

\* Payload byte i (5 <= i < 300) of a frame with pattern p.
Payload(p, i) ==
    IF p = 0 THEN (7 * i + 3) % 256 ELSE 255

\* Byte i of the wire frame [55 AA EB 90, type, 295 payload bytes].
FrameByte(t, p, i) ==
    IF i < 4 THEN StartSeq[i + 1]
    ELSE IF i = 4 THEN t
    ELSE Payload(p, i)

\* Bytes a .. b - 1 of the stream in which frame (t, p) repeats back to back.
Chunk(t, p, a, b) ==
    [k \in 1..(b - a) |-> FrameByte(t, p, (a + k - 1) % FrameSize)]

\* Where notifications begin and end within the stream.
Cuts ==
    { <<0, MinHeader - 1>>, <<0, SplitAt>>, <<SplitAt, FrameSize>>,
      <<0, FrameSize>>, <<0, MaxChunkLen>>, <<SplitAt, MaxChunkLen>> }

Chunks ==
    { Chunk(t, p, c[1], c[2]) : t \in FrameTypes, p \in Patterns, c \in Cuts }

\* ------------------------------------------------------------------------
\* State
\* ------------------------------------------------------------------------
VARIABLES
    jkBmsDevices,   \* main.cpp: the global device array, indexed from 0
    millis,         \* the reading of the Arduino clock
    bms,            \* per device, the frame its BMS is sending and the offset sent
    call,           \* history: the last handler call
    fed,            \* history: per device, what was delivered since construction
    sinceData,      \* history: per device, deliveries since the last parseData
    alone,          \* history: per device, the device had the notifications
                    \* of its own characteristic been the only ones (followed
                    \* where several devices are subscribed, <<>> elsewhere)
    ble,            \* per device, the state of the BLE stack and the history
                    \* of its connections (<<>> where no link is modelled)
    loop            \* main.cpp: the static lastConnectionAttempt of loop()
                    \* and the operand of the timeout test already read

vars == <<jkBmsDevices, millis, bms, call, fed, sinceData, alone, ble, loop>>

Devices == 0..(bmsDeviceCount - 1)

\* received_start && !received_complete: a frame is being accumulated.
Accumulating(d) == d.received_start /\ ~d.received_complete

NoCall ==
    [ op |-> "none", dev |-> 0, path |-> "none", decoder |-> "none",
      dispatched |-> 0, length |-> 0, marker |-> FALSE,
      accumulating |-> FALSE, throttle |-> 0, pData |-> <<>> ]

\* fed is followed for at most MaxSplit notifications and FrameSize bytes.
FedOverflow == [n |-> MaxSplit + 1, bytes |-> <<>>]

\* connectToServer found the ffe1 characteristic of device i's BMS and
\* subscribed to it: pChr points to it.
Subscribed(d, i) == [d EXCEPT !.pChr = i + 1]

\* The devices are constructed and subscribed; nothing was delivered yet.
Init ==
    /\ jkBmsDevices = [i \in Devices |-> Subscribed(NewJKBMS, i)]
    /\ millis = 0
    /\ bms = [i \in Devices |-> [k |-> 0, off |-> 0]]
    /\ call = NoCall
    /\ fed = [i \in Devices |-> [n |-> 0, bytes |-> <<>>]]
    /\ sinceData = [i \in Devices |-> -1]
    /\ alone = <<>>
    /\ ble = <<>>
    /\ loop = <<>>

\* Mutant: the loop of notifyCB has no break, every device whose pChr is the
\* characteristic handles the notification.
Route_AllHolders(pChr) ==
    { i \in DOMAIN jkBmsDevices : jkBmsDevices[i].pChr = pChr }

\* notifyCB: the device a notification of characteristic pChr goes to is the
\* first of the array whose pChr is that characteristic.
Route(pChr) ==
    { i \in DOMAIN jkBmsDevices :
        /\ jkBmsDevices[i].pChr = pChr
        /\ \A j \in DOMAIN jkBmsDevices : j < i => jkBmsDevices[j].pChr # pChr }

\* The transport delivers the notification pData of device i's
\* characteristic
\* (notifyCB -> jkBmsDevices[i].handleNotification(pData, length)).
\* call records the branch taken, the decoder run, the length of pData,
\* whether it begins with the start sequence, the state the call found
\* (accumulating, throttle) and pData itself when its bytes were stored.
Notify(i, pData) ==
    LET d == jkBmsDevices[i]
        r == handleNotification(d, pData, millis)
    IN
    /\ d.pChr # nullptr
    /\ i \in Route(d.pChr)
    /\ jkBmsDevices' = [jkBmsDevices EXCEPT ![i] = r.dev]
    /\ call' = [ op |-> "handleNotification", dev |-> i, path |-> r.path,
                 decoder |-> r.decoder, dispatched |-> r.dispatched,
                 length |-> Len(pData),
                 marker |-> Len(pData) >= MinHeader /\ IsStart(pData),
                 accumulating |-> Accumulating(d),
                 throttle |-> d.ignoreNotifyCount,
                 pData |-> IF r.path \in {"start", "append", "complete"}
                           THEN pData ELSE <<>> ]
    /\ fed' = [fed EXCEPT ![i] =
                 IF @.n < MaxSplit /\ Len(@.bytes) + Len(pData) <= FrameSize
                 THEN [n |-> @.n + 1, bytes |-> @.bytes \o pData]
                 ELSE FedOverflow]
    /\ sinceData' = [sinceData EXCEPT ![i] =
                 IF r.decoder = "parseData" THEN 0
                 ELSE IF @ < 0 THEN @
                 ELSE Min(@ + 1, ThrottleArm + 2)]
    /\ UNCHANGED <<millis, bms, alone, ble, loop>>

Next ==
    \E i \in Devices : \E pData \in Chunks : Notify(i, pData)

Spec == Init /\ [][Next]_vars

\* ------------------------------------------------------------------------
\* The decoders over a sequence of frames
\* ------------------------------------------------------------------------
\* The BMS sends the frames 0, 1, 2, ... in this order.  The frames 0, 1, 2
\* are of the types 4, 3, 1, those after are cell-data frames.  Frame n
\* carries SweepHi(n), which runs through 0..255 from frame 3 on, as the
\* high byte of the MOS temperature and as the sign byte of the balancing
\* current, and that value plus 1 and plus 2 as the high bytes of T1 and T2;
\* the low bytes change from one pass of 256 frames to the next.
LoBytes == <<56, 0, 255>>
BalanceLoBytes == <<100, 0, 255>>

SweepType(n) == IF n < 3 THEN <<4, 3, 1>>[n + 1] ELSE 2

SweepHi(n) == (n + 253) % 256

SweepPass(n) == (((n + 253) \div 256) - 1) % Len(LoBytes)

\* The uptime, in seconds, frame n carries in bytes 194..196: the boundary
\* values first, then values spread over 0 .. 2^24 - 1.
UptimeCases == <<90065, 0, 59, 60, 3599, 3600, 86399, 86400, 16777215>>

SweepUptime(n) ==
    IF n >= 3 /\ n - 2 <= Len(UptimeCases) THEN UptimeCases[n - 2]
    ELSE (n * 21871) % 16777216

\* Byte i of frame n.  The cell voltage and wire resistance slots (6..37,
\* 80..111) change with every frame, slot 0 of frame 3 being 10 0C; byte
\* 153 (battery voltage) and byte 161 (charge current) run through 0..255.
SweepByte(n, i) ==
    IF i < 4 THEN StartSeq[i + 1]
    ELSE IF i = 4 THEN SweepType(n)
    ELSE IF i = 6 THEN (16 + SweepHi(n)) % 256
    ELSE IF i = 7 THEN (12 + SweepPass(n)) % 256
    ELSE IF i \in 8..37 \/ i \in 80..111 THEN (Payload(0, i) + SweepHi(n)) % 256
    ELSE IF i = 150 \/ i = 158 THEN LoBytes[SweepPass(n) + 1]
    ELSE IF i = 153 THEN SweepHi(n)
    ELSE IF i = 161 THEN (SweepHi(n) + 128) % 256
    ELSE IF i = 194 THEN SweepUptime(n) % 256
    ELSE IF i = 195 THEN (SweepUptime(n) \div 256) % 256
    ELSE IF i = 196 THEN SweepUptime(n) \div 65536
    ELSE IF i = 144 THEN LoBytes[SweepPass(n) + 1]
    ELSE IF i = 145 THEN SweepHi(n)
    ELSE IF i = 162 THEN (LoBytes[SweepPass(n) + 1] + 1) % 256
    ELSE IF i = 163 THEN (SweepHi(n) + 1) % 256
    ELSE IF i = 164 THEN (LoBytes[SweepPass(n) + 1] + 2) % 256
    ELSE IF i = 165 THEN (SweepHi(n) + 2) % 256
    ELSE IF i = 170 THEN BalanceLoBytes[SweepPass(n) + 1]
    ELSE IF i = 171 THEN SweepHi(n)
    ELSE Payload(0, i)

\* Bytes a .. b - 1 of frame n.
SweepChunk(n, a, b) == [k \in 1..(b - a) |-> SweepByte(n, a + k - 1)]

\* Where the first notification of a frame ends.
DecodeCuts == {HeadLen, SplitAt}

\* The transport delivers the next notification of device i's BMS: the
\* first cut bytes of the frame the BMS is at, or the rest of it.  The BMS
\* repeats a notification that the throttle dropped.
DecodeNotify(i, cut) ==
    LET d == jkBmsDevices[i]
        b == bms[i]
        end == IF b.off = 0 THEN cut ELSE FrameSize
        pData == SweepChunk(b.k, b.off, end)
        r == handleNotification(d, pData, millis)
    IN
    /\ b.k < SweepLen
    /\ d.pChr # nullptr
    /\ i \in Route(d.pChr)
    /\ jkBmsDevices' = [jkBmsDevices EXCEPT ![i] = r.dev]
    /\ call' = [ op |-> "handleNotification", dev |-> i, path |-> r.path,
                 decoder |-> r.decoder, dispatched |-> r.dispatched,
                 length |-> Len(pData),
                 marker |-> Len(pData) >= MinHeader /\ IsStart(pData),
                 accumulating |-> Accumulating(d),
                 throttle |-> d.ignoreNotifyCount,
                 pData |-> <<>> ]
    /\ bms' = [bms EXCEPT ![i] =
                 IF r.path = "throttled" THEN @
                 ELSE IF end = FrameSize THEN [k |-> @.k + 1, off |-> 0]
                 ELSE [k |-> @.k, off |-> end]]
    /\ UNCHANGED <<millis, fed, sinceData, alone, ble, loop>>

\* The application calls the public method parseDeviceInfo of device i.
ParseDeviceInfoCall(i) ==
    /\ jkBmsDevices' = [jkBmsDevices EXCEPT ![i] = parseDeviceInfo(@)]
    /\ call' = [NoCall EXCEPT !.op = "parseDeviceInfo", !.dev = i]
    /\ UNCHANGED <<millis, bms, fed, sinceData, alone, ble, loop>>

NextDecode ==
    \/ \E i \in Devices : \E cut \in DecodeCuts : DecodeNotify(i, cut)
    \/ \E i \in Devices : ParseDeviceInfoCall(i)

SpecDecode == Init /\ [][NextDecode]_vars

\* ------------------------------------------------------------------------
\* The command builder and the checksum
\* ------------------------------------------------------------------------
\* Register addresses: the known command registers and the extremes.
Addresses == {0, 1, 29, 30, 31, 150, 151, 255}

Lengths == {0, 4, 255}

\* 32-bit values as <<high half, low half>>: 0, 1, 0x100, 0x10000,
\* 0x01020304, 0x7FFFFFFF, 0x80000000, 0xFFFFFFFF.
Values ==
    { <<0, 0>>, <<0, 1>>, <<0, 256>>, <<1, 0>>, <<258, 772>>,
      <<32767, 65535>>, <<32768, 0>>, <<65535, 65535>> }

\* The 19 bytes the checksum of the device-info request is taken over.
InfoRequestBytes ==
    <<170, 85, 144, 235, 151, 0>> \o [k \in 1..(CrcLen - 6) |-> 0]

\* Byte sequences the checksum is applied to.
CrcData ==
    { [k \in 1..CrcLen |-> 0], InfoRequestBytes, [k \in 1..CrcLen |-> 255],
      <<255, 1>>, <<200, 100, 50, 25>>, <<128, 128, 1>>, <<>> }

\* A device as constructed, after connectToServer subscribed, and after
\* the first notification of a frame.
DeviceStages == {"constructed", "subscribed", "accumulating"}

Staged(stage, i) ==
    IF stage = "constructed" THEN NewJKBMS
    ELSE IF stage = "subscribed" THEN Subscribed(NewJKBMS, i)
    ELSE handleNotification(Subscribed(NewJKBMS, i),
                            Chunk(2, 0, 0, SplitAt), 0).dev

InitCommand ==
    /\ \E stage \in [Devices -> DeviceStages] :
          jkBmsDevices = [i \in Devices |-> Staged(stage[i], i)]
    /\ millis = 0
    /\ bms = [i \in Devices |-> [k |-> 0, off |-> 0]]
    /\ call = NoCall
    /\ fed = [i \in Devices |-> [n |-> 0, bytes |-> <<>>]]
    /\ sinceData = [i \in Devices |-> -1]
    /\ alone = <<>>
    /\ ble = <<>>
    /\ loop = <<>>

\* writeRegister(address, value, length) is called on device i.
WriteRegisterCall(i, address, value, length) ==
    LET r == writeRegister(jkBmsDevices[i], address, value, length) IN
    /\ jkBmsDevices' = [jkBmsDevices EXCEPT ![i] = r.dev]
    /\ call' = [ op |-> "writeRegister", dev |-> i, address |-> address,
                 value |-> value, length |-> length,
                 frame |-> r.frame, written |-> r.written ]
    /\ UNCHANGED <<millis, bms, fed, sinceData, alone, ble, loop>>

\* crc(data, len) is applied to the first len bytes of data.
CrcCall(data, len) ==
    /\ call' = [ op |-> "crc", data |-> data, len |-> len,
                 result |-> crc(data, len) ]
    /\ UNCHANGED <<jkBmsDevices, millis, bms, fed, sinceData, alone, ble, loop>>

NextCommand ==
    \/ \E i \in Devices : \E address \in Addresses : \E value \in Values :
          \E length \in Lengths : WriteRegisterCall(i, address, value, length)
    \/ \E data \in CrcData : \E len \in {0, 1, Len(data)} :
          len <= Len(data) /\ CrcCall(data, len)

SpecCommand == InitCommand /\ [][NextCommand]_vars

\* ------------------------------------------------------------------------
\* Several devices (main.cpp: "Configure your BMS devices by adding their
\* MAC addresses here"), notifications interleaved
\* ------------------------------------------------------------------------
\* The number of entries of the device array.
MaxDevices == 2

DeviceSlots == 0..(MaxDevices - 1)

\* The characteristics that notify: one per BMS.
Characteristics == 1..MaxDevices

\* Which characteristic each entry is subscribed to: every entry to its own
\* BMS, or every entry to the BMS of entry 0 (the same MAC address listed
\* more than once).
Wirings ==
    { [i \in DeviceSlots |-> i + 1], [i \in DeviceSlots |-> 1] }

\* The BMS behind characteristic pChr sends cell-data frames in two
\* notifications each; the payload differs from one BMS to the next.
DeviceChunks(pChr) ==
    { Chunk(2, pChr % 2, c[1], c[2]) :
        c \in {<<0, SplitAt>>, <<SplitAt, FrameSize>>} }

InitDevices ==
    /\ \E w \in Wirings :
          jkBmsDevices = [i \in DeviceSlots |-> [NewJKBMS EXCEPT !.pChr = w[i]]]
    /\ millis = 0
    /\ bms = [i \in Devices |-> [k |-> 0, off |-> 0]]
    /\ call = NoCall
    /\ fed = [i \in Devices |-> [n |-> 0, bytes |-> <<>>]]
    /\ sinceData = [i \in Devices |-> -1]
    /\ alone = jkBmsDevices
    /\ ble = <<>>
    /\ loop = <<>>

\* Device i is the one the notifications of characteristic pChr are for:
\* the first entry subscribed to it.
Owns(i, pChr) ==
    /\ jkBmsDevices[i].pChr = pChr
    /\ \A j \in DOMAIN jkBmsDevices : j < i => jkBmsDevices[j].pChr # pChr

\* notifyCB(pChr, pData, length, isNotify): the loop over the array, the
\* handler of the first match, break.  call records the characteristic,
\* the chunk, the entries the handler ran on, the branch it took, and the
\* entries the previous notification was handled by.
NotifyCB(pChr, pData) ==
    LET R == Route(pChr) IN
    /\ jkBmsDevices' =
          [i \in DOMAIN jkBmsDevices |->
              IF i \in R
              THEN handleNotification(jkBmsDevices[i], pData, millis).dev
              ELSE jkBmsDevices[i]]
    /\ alone' =
          [i \in DOMAIN alone |->
              IF Owns(i, pChr)
              THEN handleNotification(alone[i], pData, millis).dev
              ELSE alone[i]]
    /\ call' = [ op |-> "notifyCB", pChr |-> pChr, pData |-> pData,
                 delivered |-> R,
                 path |-> { handleNotification(jkBmsDevices[i], pData,
                                               millis).path : i \in R },
                 previous |-> IF call.op = "notifyCB" THEN call.delivered
                              ELSE {} ]
    /\ UNCHANGED <<millis, bms, fed, sinceData, ble, loop>>

NextDevices ==
    \E pChr \in Characteristics : \E pData \in DeviceChunks(pChr) :
        NotifyCB(pChr, pData)

SpecDevices == InitDevices /\ [][NextDevices]_vars

\* ------------------------------------------------------------------------
\* Connections: ScanCallbacks::onResult, loop(), JKBMS::connectToServer,
\* JKBMS::enableBMSFunctions, ClientCallbacks
\* ------------------------------------------------------------------------
\* loop(): millis() - lastNotifyTime > 25000.
NotifyTimeout == 25000

\* loop(): millis() - lastConnectionAttempt > 5000.
ConnectPause == 5000

\* connectToServer: const int maxRetries = 3.
maxRetries == 3

\* The clock advances in steps of StepMs up to MaxMillis, and by single
\* milliseconds, MaxFineTicks times, between the two reads of the timeout
\* test.
StepMs == 13000
MaxMillis == 39000
MaxFineTicks == 1

\* connectToServer succeeds at most MaxEpoch times; the BLE connection
\* attempts of one call fail up to MaxFailures times in a row.
MaxEpoch == 2
MaxFailures == 3

\* targetMAC of device i, and the addresses that advertise: those of the
\* devices and one more.
TargetMAC(i) == i + 1
Advertised == 1..(bmsDeviceCount + 1)

\* The ffe1 characteristic of the BMS of device i.
CharacteristicOf(i) == i + 1

\* a - b > limit on 32-bit unsigned operands that are less than 2^31
\* apart: when b is the larger, the difference wraps to 2^32 - (b - a),
\* which is above the limits of loop().
Exceeds(a, b, limit) == IF a >= b THEN a - b > limit ELSE TRUE

\* ClientCallbacks::onConnect.
onConnect(d) == [d EXCEPT !.connected = TRUE]

\* Mutant: onDisconnect also resets the reassembler.
onDisconnect_ResetsFrame(d) ==
    [d EXCEPT !.connected = FALSE, !.doConnect = FALSE,
              !.frame = 0, !.received_start = FALSE,
              !.ignoreNotifyCount = 0]

\* ClientCallbacks::onDisconnect.
onDisconnect(d) == [d EXCEPT !.connected = FALSE, !.doConnect = FALSE]

\* Mutant: the scan callback does not test connected.
onResult_IgnoresConnected(d, i, address) ==
    IF address = TargetMAC(i) /\ ~d.doConnect
    THEN [d EXCEPT !.advDevice = address, !.doConnect = TRUE]
    ELSE d

\* ScanCallbacks::onResult, the body of its loop for device i (targetMAC
\* is not empty).
onResult(d, i, address) ==
    IF address = TargetMAC(i) /\ ~d.connected /\ ~d.doConnect
    THEN [d EXCEPT !.advDevice = address, !.doConnect = TRUE]
    ELSE d

\* Mutant: the retry loop has no limit.
ConnectAttempts_NoLimit(failures) ==
    [made |-> failures + 1, linked |-> TRUE]

\* The retry loop of connectToServer when pClient->connect fails `failures`
\* times before it would succeed: the attempts made, and whether the loop
\* was left by break.
ConnectAttempts(failures) ==
    [ made |-> Min(failures + 1, maxRetries),
      linked |-> failures < maxRetries ]

\* The two requests connectToServer writes after subscribing.
InitialRequests(d) ==
    writeRegister(d, 151, <<0, 0>>, 0).written
        \o writeRegister(d, 150, <<0, 0>>, 0).written

\* Mutant: the enable commands are written with value 0.
enableBMSFunctions_Disables(d) ==
    writeRegister(d, 29, <<0, 0>>, 4).written
        \o writeRegister(d, 30, <<0, 0>>, 4).written
        \o writeRegister(d, 31, <<0, 0>>, 4).written

\* enableBMSFunctions: the frames written.
enableBMSFunctions(d) ==
    writeRegister(d, 29, <<0, 1>>, 4).written
        \o writeRegister(d, 30, <<0, 1>>, 4).written
        \o writeRegister(d, 31, <<0, 1>>, 4).written

\* What the BLE stack answers during one call of connectToServer: the
\* client ("existing", "created", "limit" for three clients created
\* already, "failed" for createClient returning null), the number of
\* connection attempts that fail, whether the ffe0 service is found, the
\* ffe1 characteristic ("found", "missing", "mute" when it cannot notify),
\* and whether subscribe succeeds.
ConnectOutcomes ==
    { [client |-> c, failures |-> 0, service |-> TRUE, chr |-> "found",
       subscribe |-> TRUE] : c \in {"limit", "failed"} }
    \cup
    { [client |-> c, failures |-> f, service |-> x[1], chr |-> x[2],
       subscribe |-> x[3]] :
        c \in {"existing", "created"}, f \in 0..MaxFailures,
        x \in { <<FALSE, "found", TRUE>>, <<TRUE, "missing", TRUE>>,
                <<TRUE, "mute", TRUE>>, <<TRUE, "found", FALSE>>,
                <<TRUE, "found", TRUE>> } }

\* connectToServer on device i with the answers o, the clock reading now
\* at its end: the device after the function's own assignments (dev), the
\* value returned, the connection attempts made, whether the link came up
\* (linked: onConnect ran), whether the subscription was made, the frames
\* written, whether pClient->disconnect() was called, and whether a client
\* exists afterwards.
connectToServer(d, i, o, now) ==
    LET a == ConnectAttempts(o.failures)
        none == [ dev |-> d, returned |-> FALSE, attempts |-> 0,
                  linked |-> FALSE, subscribed |-> FALSE, sent |-> <<>>,
                  disconnect |-> FALSE, client |-> FALSE ]
        up == [none EXCEPT !.attempts = a.made, !.client = TRUE,
                           !.linked = TRUE, !.disconnect = TRUE]
        t == [d EXCEPT !.pChr = IF o.chr = "missing" THEN nullptr
                                ELSE CharacteristicOf(i)]
    IN
    IF o.client \in {"limit", "failed"} THEN none
    ELSE IF ~a.linked
    THEN [none EXCEPT !.attempts = a.made, !.client = TRUE]
    ELSE IF ~o.service THEN up
    ELSE IF o.chr # "found" \/ ~o.subscribe THEN [up EXCEPT !.dev = t]
    ELSE [up EXCEPT !.dev = [t EXCEPT !.connected = TRUE,
                                      !.lastNotifyTime = now],
                    !.returned = TRUE,
                    !.subscribed = TRUE,
                    !.sent = InitialRequests(t) \o enableBMSFunctions(t),
                    !.disconnect = FALSE]

\* Notifications of a connected BMS: the two halves of a cell-data frame
\* and a chunk of 3 bytes.
ConnectionChunks ==
    { Chunk(2, 0, 0, SplitAt), Chunk(2, 0, SplitAt, FrameSize),
      Chunk(2, 0, 0, MinHeader - 1) }

\* No operand of the timeout test has been read.
NoSample == [dev |-> -1, order |-> "none", value |-> 0]

\* The devices as constructed, no client, no link; loop() has its static
\* lastConnectionAttempt = 0.  ble[i] holds the stack's state (client,
\* link, subscribed) and the history: epoch counts the successful
\* connectToServer calls, lastDelivery is the clock reading of the last
\* notification handled (-1: none), startEpoch the epoch in which the
\* frame in the buffer was started (-1: none).
InitConnection ==
    /\ jkBmsDevices = [i \in Devices |-> NewJKBMS]
    /\ millis = 0
    /\ bms = [i \in Devices |-> [k |-> 0, off |-> 0]]
    /\ call = NoCall
    /\ fed = [i \in Devices |-> [n |-> 0, bytes |-> <<>>]]
    /\ sinceData = [i \in Devices |-> -1]
    /\ alone = <<>>
    /\ ble = [i \in Devices |->
                [ client |-> FALSE, link |-> FALSE, subscribed |-> FALSE,
                  epoch |-> 0, lastDelivery |-> -1, startEpoch |-> -1 ]]
    /\ loop = [lastConnectionAttempt |-> 0, sampled |-> NoSample, fine |-> 0]

\* Time passes (between the two reads of the timeout test, see FineTick).
Tick ==
    /\ loop.sampled = NoSample
    /\ millis + StepMs <= MaxMillis
    /\ millis' = millis + StepMs
    /\ call' = [op |-> "tick"]
    /\ UNCHANGED <<jkBmsDevices, bms, fed, sinceData, alone, ble, loop>>

\* A millisecond passes between the two reads of the timeout test.
FineTick ==
    /\ loop.sampled # NoSample
    /\ loop.fine < MaxFineTicks
    /\ millis + 1 <= MaxMillis
    /\ millis' = millis + 1
    /\ loop' = [loop EXCEPT !.fine = @ + 1]
    /\ call' = [op |-> "tick"]
    /\ UNCHANGED <<jkBmsDevices, bms, fed, sinceData, alone, ble>>

\* The scan reports a device that advertises `address`.
OnResult(address) ==
    /\ jkBmsDevices' =
          [i \in Devices |-> onResult(jkBmsDevices[i], i, address)]
    /\ call' = [op |-> "onResult", address |-> address]
    /\ UNCHANGED <<millis, bms, fed, sinceData, alone, ble, loop>>

\* loop(), lines 84-94, for device i: connectToServer is called, the
\* stack answering o; onConnect runs when the link comes up; then
\* doConnect = false and lastConnectionAttempt = millis().  A client
\* exists or not as the stack has it, and no attempt succeeds while the
\* previous link is still up.
LoopConnect(i, o) ==
    LET d == jkBmsDevices[i]
        r == connectToServer(d, i, o, millis)
        after == IF r.linked THEN onConnect(r.dev) ELSE r.dev
    IN
    /\ loop.sampled = NoSample
    /\ d.doConnect /\ ~d.connected
    /\ Exceeds(millis, loop.lastConnectionAttempt, ConnectPause)
    /\ (o.client = "existing") <=> ble[i].client
    /\ ble[i].link => o.failures >= maxRetries
    /\ r.returned => ble[i].epoch < MaxEpoch
    /\ jkBmsDevices' =
          [jkBmsDevices EXCEPT ![i] = [after EXCEPT !.doConnect = FALSE]]
    /\ loop' = [loop EXCEPT !.lastConnectionAttempt = millis]
    /\ ble' = [ble EXCEPT ![i] =
                 [@ EXCEPT !.client = @ \/ r.client,
                           !.link = @ \/ r.linked,
                           !.subscribed = IF r.linked THEN r.subscribed ELSE @,
                           !.epoch = IF r.returned THEN @ + 1 ELSE @]]
    /\ call' = [ op |-> "connectToServer", dev |-> i,
                 returned |-> r.returned, attempts |-> r.attempts,
                 linked |-> r.linked, subscribed |-> r.subscribed,
                 sent |-> r.sent, disconnect |-> r.disconnect,
                 own |-> r.dev, outcome |-> o ]
    /\ UNCHANGED <<millis, bms, fed, sinceData, alone>>

\* loop(), line 99, for a connected device i: the first operand of
\* millis() - lastNotifyTime is read, the clock ("clock") or the member
\* ("member"); the order is the compiler's.
LoopSample(i, order) ==
    /\ loop.sampled = NoSample
    /\ jkBmsDevices[i].connected
    /\ loop' = [loop EXCEPT !.sampled =
                  [ dev |-> i, order |-> order,
                    value |-> IF order = "clock" THEN millis
                              ELSE jkBmsDevices[i].lastNotifyTime ]]
    /\ call' = [op |-> "loopSample", dev |-> i]
    /\ UNCHANGED <<jkBmsDevices, millis, bms, fed, sinceData, alone, ble>>

\* loop(), lines 99-106: the other operand is read and the difference
\* compared; on a timeout the client is looked up, disconnect() is called
\* and connected is cleared.
LoopTimeout(i) ==
    LET d == jkBmsDevices[i]
        now == IF loop.sampled.order = "clock" THEN loop.sampled.value
               ELSE millis
        last == IF loop.sampled.order = "clock" THEN d.lastNotifyTime
                ELSE loop.sampled.value
        disconnected == Exceeds(now, last, NotifyTimeout) /\ ble[i].client
    IN
    /\ loop.sampled.dev = i
    /\ jkBmsDevices' =
          [jkBmsDevices EXCEPT ![i] =
              IF disconnected THEN [d EXCEPT !.connected = FALSE] ELSE d]
    /\ loop' = [loop EXCEPT !.sampled = NoSample]
    /\ call' = [ op |-> "loopTimeout", dev |-> i,
                 disconnected |-> disconnected, now |-> now, last |-> last ]
    /\ UNCHANGED <<millis, bms, fed, sinceData, alone, ble>>

\* The link of device i goes down, lost or closed by disconnect(), and
\* the stack calls onDisconnect.
OnDisconnect(i) ==
    /\ ble[i].link
    /\ jkBmsDevices' = [jkBmsDevices EXCEPT ![i] = onDisconnect(@)]
    /\ ble' = [ble EXCEPT ![i] = [@ EXCEPT !.link = FALSE,
                                           !.subscribed = FALSE]]
    /\ call' = [op |-> "onDisconnect", dev |-> i]
    /\ UNCHANGED <<millis, bms, fed, sinceData, alone, loop>>

\* The BMS of device i notifies over a subscribed link
\* (notifyCB -> handleNotification).
Deliver(i, pData) ==
    LET d == jkBmsDevices[i]
        r == handleNotification(d, pData, millis)
    IN
    /\ ble[i].link /\ ble[i].subscribed
    /\ d.pChr # nullptr
    /\ i \in Route(d.pChr)
    /\ jkBmsDevices' = [jkBmsDevices EXCEPT ![i] = r.dev]
    /\ ble' = [ble EXCEPT ![i] =
                 [@ EXCEPT !.lastDelivery = millis,
                           !.startEpoch = IF r.path = "start"
                                          THEN ble[i].epoch ELSE @]]
    /\ call' = [ op |-> "handleNotification", dev |-> i, path |-> r.path,
                 decoder |-> r.decoder, dispatched |-> r.dispatched,
                 length |-> Len(pData),
                 marker |-> Len(pData) >= MinHeader /\ IsStart(pData),
                 accumulating |-> Accumulating(d),
                 throttle |-> d.ignoreNotifyCount,
                 pData |-> IF r.path \in {"start", "append", "complete"}
                           THEN pData ELSE <<>> ]
    /\ UNCHANGED <<millis, bms, fed, sinceData, alone, loop>>

NextConnection ==
    \/ Tick
    \/ FineTick
    \/ \E address \in Advertised : OnResult(address)
    \/ \E i \in Devices : \E o \in ConnectOutcomes : LoopConnect(i, o)
    \/ \E i \in Devices : \E order \in {"clock", "member"} :
          LoopSample(i, order)
    \/ \E i \in Devices : LoopTimeout(i)
    \/ \E i \in Devices : OnDisconnect(i)
    \/ \E i \in Devices : \E pData \in ConnectionChunks : Deliver(i, pData)

SpecConnection == InitConnection /\ [][NextConnection]_vars

\* ------------------------------------------------------------------------
\* Properties
\* ------------------------------------------------------------------------
\* The reassembler state and the decoded records of a device.
Reassembler(d) ==
    <<d.frame, d.receivedBytes, d.received_start, d.received_complete>>

Records(d) == <<d.data, d.settings>>

\* The step is a handleNotification call on device i.
Handled(i) == call'.op = "handleNotification" /\ call'.dev = i

\* The decoder a type byte selects.
DecoderFor(type) ==
    IF type = 1 THEN "bms_settings"
    ELSE IF type = 2 THEN "parseData"
    ELSE IF type = 3 THEN "parseDeviceInfo"
    ELSE "none"

\* b is the 300 bytes of a CellData frame.
IsCellDataFrame(b) ==
    Len(b) = FrameSize /\ IsStart(b) /\ b[5] = 2

\* The telemetry the cell-data decoder reads from the frame b on a device
\* that has decoded nothing before.
DecodedFrom(b) ==
    CellData([NewJKBMS EXCEPT
        !.receivedBytes = b \o [k \in 1..(BufferSize - FrameSize) |-> 0]])

\* C1: a fresh device that was delivered the 300 bytes of a CellData frame,
\* as one notification or split over several in order, holds the telemetry
\* decoded from that frame, and the call that took the last byte ran the
\* cell-data decoder; hence every split leaves the same record as one chunk.
C1_ReassemblyEquivalence ==
    \A i \in Devices :
        (fed[i].n \in 1..MaxSplit /\ IsCellDataFrame(fed[i].bytes))
            => /\ jkBmsDevices[i].data = DecodedFrom(fed[i].bytes)
               /\ call.decoder = "parseData"

\* C2: an Idle device with throttle 0 that is delivered one notification of
\* 300 or more bytes beginning with 55 AA EB 90 marks the frame complete and
\* dispatches it to the decoder byte 4 selects, within that call.
C2_SingleChunkCompletes ==
    \A i \in Devices :
        ( /\ call.op = "handleNotification" /\ call.dev = i
          /\ ~call.accumulating /\ call.throttle = 0
          /\ call.marker /\ call.length >= FrameSize )
            => /\ jkBmsDevices[i].received_complete
               /\ call.dispatched = 1
               /\ call.decoder = DecoderFor(At(jkBmsDevices[i].receivedBytes, 4))

\* C3: each of the 10 deliveries that follow a cell-data decode is dropped
\* and leaves the cursor, the buffer, the start/complete flags and the
\* records as they were; the 11th is not dropped: it finds the throttle at 0
\* and takes one of the reassembler's branches.
C3_Throttle ==
    [][\A i \in Devices :
        (Handled(i) /\ sinceData[i] \in 0..ThrottleArm)
            => IF sinceData[i] < ThrottleArm
               THEN /\ call'.path = "throttled"
                    /\ Reassembler(jkBmsDevices'[i]) = Reassembler(jkBmsDevices[i])
                    /\ Records(jkBmsDevices'[i]) = Records(jkBmsDevices[i])
               ELSE /\ jkBmsDevices[i].ignoreNotifyCount = 0
                    /\ call'.path \in {"short", "start", "append", "complete", "ignored"}
      ]_vars

\* C3 witness: the 11th delivery after a cell-data decode began a new frame.
C3_Witness ==
    \E i \in Devices :
        /\ sinceData[i] = ThrottleArm + 1
        /\ call.dev = i /\ call.path = "start"
        /\ jkBmsDevices[i].frame = SplitAt

\* C4 (as claimed): while a frame is being accumulated, a notification of at
\* least 4 bytes that begins with 55 AA EB 90 is appended at the cursor and
\* the bytes accumulated so far stay.
C4_MarkerChunkAppended ==
    [][\A i \in Devices :
        (Handled(i) /\ Accumulating(jkBmsDevices[i]) /\ call'.marker)
            => LET d == jkBmsDevices[i]
                   e == jkBmsDevices'[i]
               IN /\ e.frame = Min(d.frame + call'.length, FrameSize)
                  /\ SubSeq(e.receivedBytes, 1, d.frame)
                        = SubSeq(d.receivedBytes, 1, d.frame)
      ]_vars

\* C4 (amended): while a frame is being accumulated, a notification of at
\* least 4 bytes that begins with 55 AA EB 90 restarts the frame: the cursor
\* becomes min(length, 300) and the buffer holds the notification's bytes
\* from index 0; one that does not begin with it is appended at the cursor,
\* whatever its bytes, and the bytes accumulated so far stay.
C4_MarkerChunkRestarts ==
    [][\A i \in Devices :
        (Handled(i) /\ Accumulating(jkBmsDevices[i]) /\ call'.length >= MinHeader)
            => LET d == jkBmsDevices[i]
                   e == jkBmsDevices'[i]
               IN IF call'.marker
                  THEN /\ e.frame = Min(call'.length, FrameSize)
                       /\ SubSeq(e.receivedBytes, 1, e.frame)
                            = SubSeq(call'.pData, 1, e.frame)
                       /\ Accumulating(e)
                  ELSE /\ e.frame = Min(d.frame + call'.length, FrameSize)
                       /\ SubSeq(e.receivedBytes, 1, d.frame)
                            = SubSeq(d.receivedBytes, 1, d.frame)
                       /\ SubSeq(e.receivedBytes, d.frame + 1, e.frame)
                            = SubSeq(call'.pData, 1, e.frame - d.frame)
      ]_vars

\* C4 witness: a notification beginning with the start sequence arrived
\* while a frame was partly accumulated, and a frame is accumulating still.
C4_Witness ==
    \E i \in Devices :
        /\ call.dev = i /\ call.accumulating /\ call.marker
        /\ call.length = SplitAt
        /\ jkBmsDevices[i].frame = SplitAt
        /\ Accumulating(jkBmsDevices[i])

\* C5: a frame being accumulated persists: a call that neither completes it
\* nor begins with the start sequence leaves it being accumulated, with the
\* bytes below the cursor as they were and the cursor moved only by the
\* bytes appended; a notification beginning with the start sequence
\* overwrites it: the cursor restarts at 0 and the notification's bytes
\* occupy the buffer from index 0.
C5_PartialFramePersists ==
    [][\A i \in Devices :
        (Handled(i) /\ Accumulating(jkBmsDevices[i]))
            => LET d == jkBmsDevices[i]
                   e == jkBmsDevices'[i]
               IN IF call'.path = "start"
                  THEN /\ call'.marker
                       /\ e.frame = Min(call'.length, FrameSize)
                       /\ SubSeq(e.receivedBytes, 1, e.frame)
                            = SubSeq(call'.pData, 1, e.frame)
                  ELSE IF call'.path = "complete"
                  THEN e.frame = FrameSize /\ d.frame < FrameSize
                  ELSE /\ Accumulating(e)
                       /\ e.frame >= d.frame
                       /\ SubSeq(e.receivedBytes, 1, d.frame)
                            = SubSeq(d.receivedBytes, 1, d.frame)
                       /\ (call'.path # "append"
                            => Reassembler(e) = Reassembler(d))
      ]_vars

\* C5 witness: a frame being accumulated was overwritten by a notification
\* beginning with the start sequence, whose bytes are now the buffer's
\* first, below bytes left from the frame before.
C5_Witness ==
    \E i \in Devices :
        /\ call.dev = i /\ call.accumulating /\ call.path = "start"
        /\ jkBmsDevices[i].frame = Len(call.pData)
        /\ SubSeq(jkBmsDevices[i].receivedBytes, 1, Len(call.pData)) = call.pData
        /\ At(jkBmsDevices[i].receivedBytes, FrameSize - 1) # 0

\* C6: in the Accumulating state, the call that brings the cursor to 300
\* marks the frame complete, enters the dispatcher once and leaves the
\* reassembler Idle.
C6_CompletionAt300 ==
    [][\A i \in Devices :
        ( /\ Handled(i) /\ Accumulating(jkBmsDevices[i])
          /\ call'.path \in {"start", "append", "complete"}
          /\ jkBmsDevices'[i].frame = FrameSize )
            => /\ jkBmsDevices'[i].received_complete
               /\ ~jkBmsDevices'[i].received_start
               /\ call'.dispatched = 1
      ]_vars

\* C6 for the notifications that do not begin with the start sequence: the
\* call that appends the byte at index 299 completes the frame, enters the
\* dispatcher once and leaves the reassembler Idle, so that a following
\* notification without the start sequence changes nothing and dispatches
\* nothing.
ContinuationCompletes ==
    [][\A i \in Devices :
        LET d == jkBmsDevices[i]
            e == jkBmsDevices'[i]
        IN /\ ( /\ Handled(i) /\ Accumulating(d) /\ ~call'.marker
                /\ d.frame < FrameSize /\ e.frame = FrameSize )
                => /\ e.received_complete /\ ~e.received_start
                   /\ call'.path = "complete" /\ call'.dispatched = 1
           /\ ( /\ Handled(i) /\ d.received_complete /\ ~call'.marker )
                => /\ Reassembler(e) = Reassembler(d)
                   /\ call'.dispatched = 0
      ]_vars

\* C7: a notification is stored up to the frame boundary and no further: the
\* call stores n = min(length, 300 - cursor) bytes, after which the buffer
\* below the cursor is the bytes held before followed by the first n of the
\* notification, in order; nothing is written at or above the new cursor;
\* and when the frame completes the reassembler is left with no frame
\* started, so the bytes cut off begin nothing.
C7_Truncation ==
    [][\A i \in Devices :
        (Handled(i) /\ call'.path \in {"start", "append", "complete"})
            => LET d == jkBmsDevices[i]
                   e == jkBmsDevices'[i]
                   base == IF call'.path = "start" THEN 0 ELSE d.frame
                   n == Min(call'.length, FrameSize - base)
               IN /\ e.frame = base + n
                  /\ e.frame <= FrameSize
                  /\ SubSeq(e.receivedBytes, 1, e.frame)
                        = SubSeq(d.receivedBytes, 1, base)
                            \o SubSeq(call'.pData, 1, n)
                  /\ SubSeq(e.receivedBytes, e.frame + 1, BufferSize)
                        = SubSeq(d.receivedBytes, e.frame + 1, BufferSize)
                  /\ (call'.path = "complete"
                        => e.frame = FrameSize /\ ~Accumulating(e))
      ]_vars

\* C7 witness: a frame completed on a notification longer than the room
\* left in it.
C7_Witness ==
    \E i \in Devices :
        /\ call.dev = i /\ call.path = "complete"
        /\ call.length > FrameSize - SplitAt
        /\ jkBmsDevices[i].frame = FrameSize

\* C8 (as claimed): a notification shorter than 4 bytes changes neither the
\* cursor, the buffer, the flags, the throttle counter nor the records.
C8_ShortChunkNoMutation ==
    [][\A i \in Devices :
        (Handled(i) /\ call'.length < MinHeader)
            => /\ Reassembler(jkBmsDevices'[i]) = Reassembler(jkBmsDevices[i])
               /\ Records(jkBmsDevices'[i]) = Records(jkBmsDevices[i])
               /\ jkBmsDevices'[i].ignoreNotifyCount
                    = jkBmsDevices[i].ignoreNotifyCount
      ]_vars

\* C8 (amended): a notification shorter than 4 bytes changes neither the
\* cursor, the buffer, the flags nor the records; the throttle counter is
\* unchanged when it is 0 and is decremented by 1 when it is positive.
C8_ShortChunkRejected ==
    [][\A i \in Devices :
        (Handled(i) /\ call'.length < MinHeader)
            => /\ Reassembler(jkBmsDevices'[i]) = Reassembler(jkBmsDevices[i])
               /\ Records(jkBmsDevices'[i]) = Records(jkBmsDevices[i])
               /\ jkBmsDevices'[i].new_data = jkBmsDevices[i].new_data
               /\ jkBmsDevices'[i].ignoreNotifyCount
                    = IF jkBmsDevices[i].ignoreNotifyCount > 0
                      THEN jkBmsDevices[i].ignoreNotifyCount - 1
                      ELSE 0
      ]_vars

\* C8 witness: a short notification was delivered to a device whose
\* throttle had just been armed, and took the counter from 10 to 9.
C8_Witness ==
    \E i \in Devices :
        /\ call.dev = i /\ call.length < MinHeader
        /\ call.path = "throttled" /\ call.throttle = ThrottleArm
        /\ jkBmsDevices[i].ignoreNotifyCount = ThrottleArm - 1

\* C9: an Idle device with throttle 0 discards a notification of at least 4
\* bytes that does not begin with 55 AA EB 90: cursor, buffer, flags,
\* throttle counter and records are unchanged and no decoder runs.
C9_IdleStrayDiscarded ==
    [][\A i \in Devices :
        ( /\ Handled(i) /\ ~Accumulating(jkBmsDevices[i])
          /\ jkBmsDevices[i].ignoreNotifyCount = 0
          /\ call'.length >= MinHeader /\ ~call'.marker )
            => /\ Reassembler(jkBmsDevices'[i]) = Reassembler(jkBmsDevices[i])
               /\ Records(jkBmsDevices'[i]) = Records(jkBmsDevices[i])
               /\ jkBmsDevices'[i].ignoreNotifyCount = 0
               /\ call'.decoder = "none" /\ call'.dispatched = 0
      ]_vars

\* C9 witness: a device left Idle by a completed frame, with throttle 0, was
\* delivered a notification of at least 4 bytes that does not begin with
\* the start sequence.
C9_Witness ==
    \E i \in Devices :
        /\ call.dev = i /\ call.op = "handleNotification"
        /\ ~call.accumulating /\ call.throttle = 0
        /\ call.length >= MinHeader /\ ~call.marker
        /\ jkBmsDevices[i].received_complete

\* C10: when a frame completes whose byte 4 is not 1, 2 or 3, no decoder
\* runs, the telemetry and the settings keep their values and the throttle
\* is not armed.
C10_UnknownTypeNoWrites ==
    [][\A i \in Devices :
        ( /\ Handled(i) /\ call'.path = "complete"
          /\ At(jkBmsDevices'[i].receivedBytes, 4) \notin {1, 2, 3} )
            => /\ call'.decoder = "none"
               /\ Records(jkBmsDevices'[i]) = Records(jkBmsDevices[i])
               /\ jkBmsDevices'[i].ignoreNotifyCount = 0
      ]_vars

\* C10 witness: a frame of unknown type completed on a device that holds
\* telemetry and settings decoded earlier.
C10_Witness ==
    \E i \in Devices :
        /\ call.dev = i /\ call.path = "complete"
        /\ At(jkBmsDevices[i].receivedBytes, 4) \notin {1, 2, 3}
        /\ jkBmsDevices[i].data # DataInit
        /\ jkBmsDevices[i].settings # SettingsInit

\* C11: a call that completes a frame enters the dispatcher once, and the
\* decoder that runs is the one byte 4 of the frame selects: bms_settings
\* for 0x01 (the settings are decoded from the buffer, the telemetry stays),
\* parseData for 0x02 (the telemetry is decoded from the buffer, the
\* settings stay, the throttle is armed), parseDeviceInfo for 0x03 (both
\* records stay, new_data is cleared), none for another value; a call that
\* completes no frame runs no decoder.
C11_DispatchByType ==
    [][\A i \in Devices :
        Handled(i) =>
            LET d == jkBmsDevices[i]
                e == jkBmsDevices'[i]
                type == At(e.receivedBytes, 4)
            IN IF call'.path = "complete"
               THEN /\ call'.dispatched = 1
                    /\ call'.decoder = DecoderFor(type)
                    /\ e.received_complete
                    /\ type = 1 =>
                          /\ e.settings = bms_settings(e).settings
                          /\ e.data = d.data
                          /\ e.ignoreNotifyCount = 0 /\ e.new_data
                    /\ type = 2 =>
                          /\ e.data = CellData([d EXCEPT
                                          !.receivedBytes = e.receivedBytes])
                          /\ e.settings = d.settings
                          /\ e.ignoreNotifyCount = ThrottleArm
                    /\ type = 3 =>
                          /\ Records(e) = Records(d)
                          /\ e.ignoreNotifyCount = 0 /\ ~e.new_data
                    /\ type \notin {1, 2, 3} =>
                          /\ Records(e) = Records(d)
                          /\ e.ignoreNotifyCount = 0 /\ e.new_data
               ELSE /\ call'.decoder = "none" /\ call'.dispatched = 0
                    /\ Records(e) = Records(d)
      ]_vars

\* C11 witness: a settings frame completed on a device that held telemetry
\* decoded earlier; the settings decoder ran and the settings are those of
\* the frame.
C11_Witness ==
    \E i \in Devices :
        /\ call.dev = i /\ call.path = "complete"
        /\ call.decoder = "bms_settings"
        /\ At(jkBmsDevices[i].receivedBytes, 4) = 1
        /\ jkBmsDevices[i].settings = bms_settings(jkBmsDevices[i]).settings
        /\ jkBmsDevices[i].settings # SettingsInit
        /\ jkBmsDevices[i].data # DataInit

\* C12: after a call that ran a decoder the cursor is 300, the buffer
\* begins with 55 AA EB 90 and byte 4 is 1, 2 or 3; so the device-info
\* decoder never runs with fewer than 134 bytes in the buffer.
C12_DispatchedFrameShape ==
    \A i \in Devices :
        (call.op = "handleNotification" /\ call.dev = i /\ call.decoder # "none")
            => LET e == jkBmsDevices[i] IN
               /\ e.frame = FrameSize
               /\ SubSeq(e.receivedBytes, 1, MinHeader) = StartSeq
               /\ At(e.receivedBytes, 4) \in {1, 2, 3}
               /\ call.decoder = "parseDeviceInfo" => e.frame >= DeviceInfoSize

\* C12 witness: the device-info decoder ran on a frame of 300 bytes.
C12_Witness ==
    \E i \in Devices :
        /\ call.dev = i /\ call.decoder = "parseDeviceInfo"
        /\ jkBmsDevices[i].frame = FrameSize
        /\ At(jkBmsDevices[i].receivedBytes, 4) = 3
        /\ IsStart(jkBmsDevices[i].receivedBytes)

\* C13: after a call that completed and decoded a cell-data frame, new_data
\* is true and the throttle counter is 10.
C13_CellDataSetsNewData ==
    \A i \in Devices :
        (call.op = "handleNotification" /\ call.dev = i
            /\ call.decoder = "parseData")
            => /\ jkBmsDevices[i].new_data
               /\ jkBmsDevices[i].ignoreNotifyCount = ThrottleArm

\* The records a caller reads a device's decoded values from: the object
\* itself, its telemetry fields and its settings fields.
Holders(d) == <<d, d.data, d.settings>>

\* C14: after a call that completed and decoded a device-info frame, the
\* device holds each identity field extracted from bytes 6..133 of the
\* frame (vendor ID, versions, uptime, power-on count, device name, ...,
\* setup passcode) in a member of that name.
C14_DeviceInfoRecordHeld ==
    \A i \in Devices :
        (call.op = "handleNotification" /\ call.dev = i
            /\ call.decoder = "parseDeviceInfo")
            => LET e == jkBmsDevices[i]
                   info == DeviceInfoLocals(e.receivedBytes)
               IN \A f \in DOMAIN info :
                    \E k \in DOMAIN Holders(e) :
                        /\ f \in DOMAIN Holders(e)[k]
                        /\ Holders(e)[k][f] = info[f]

\* C15: parseDeviceInfo called while the cursor is below 134 changes no
\* member of the device, new_data included.
C15_ShortInfoNoOp ==
    [][\A i \in Devices :
        ( /\ call'.op = "parseDeviceInfo" /\ call'.dev = i
          /\ jkBmsDevices[i].frame < DeviceInfoSize )
            => jkBmsDevices'[i] = jkBmsDevices[i]
      ]_vars

\* The sum of the first len bytes of data, as an integer.
RECURSIVE SumBytes(_, _)
SumBytes(data, len) ==
    IF len = 0 THEN 0 ELSE SumBytes(data, len - 1) + data[len]

\* C16: crc(data, len) is the sum of data[0..len-1] modulo 256, a byte that
\* is the same for the same input whatever the device's state; the
\* checksum of 19 zero bytes is 0.
C16_ChecksumIsSumMod256 ==
    call.op = "crc"
        => /\ call.result = SumBytes(call.data, call.len) % 256
           /\ call.result \in 0..255
           /\ (call.len = CrcLen /\ \A k \in 1..CrcLen : call.data[k] = 0)
                => call.result = 0

\* C16 witness: the checksum of 19 bytes whose sum exceeds 255.
C16_Witness ==
    /\ call.op = "crc" /\ call.len = CrcLen
    /\ SumBytes(call.data, call.len) > 255
    /\ call.result = SumBytes(call.data, call.len) - 768

\* C17 (as claimed): the checksum of AA 55 90 EB 97 00 and 13 zero bytes is
\* 0x31, and writeRegister(0x97, 0, 0) builds the 20 bytes
\* AA 55 90 EB 97 00, 13 zero bytes, 31.
C17_InfoRequestChecksum31 ==
    /\ (call.op = "crc" /\ call.data = InfoRequestBytes /\ call.len = CrcLen)
            => call.result = 49
    /\ ( /\ call.op = "writeRegister" /\ call.address = 151
          /\ call.value = <<0, 0>> /\ call.length = 0 )
            => call.frame = InfoRequestBytes \o <<49>>

\* C17 (amended): the checksum of AA 55 90 EB 97 00 and 13 zero bytes is
\* 0x11 = (0xAA + 0x55 + 0x90 + 0xEB + 0x97) mod 256, and
\* writeRegister(0x97, 0, 0) builds the 20 bytes AA 55 90 EB 97 00, 13 zero
\* bytes, 11.
C17_InfoRequestChecksum11 ==
    /\ (170 + 85 + 144 + 235 + 151) % 256 = 17
    /\ (call.op = "crc" /\ call.data = InfoRequestBytes /\ call.len = CrcLen)
            => call.result = 17
    /\ ( /\ call.op = "writeRegister" /\ call.address = 151
          /\ call.value = <<0, 0>> /\ call.length = 0 )
            => call.frame = InfoRequestBytes \o <<17>>

\* C17 witness: writeRegister(0x97, 0, 0) was called on a subscribed device
\* and wrote its frame to the characteristic.
C17_Witness ==
    /\ call.op = "writeRegister" /\ call.address = 151
    /\ call.value = <<0, 0>> /\ call.length = 0
    /\ call.written = <<call.frame>>
    /\ call.frame[CommandSize] = 17

\* C18: writeRegister builds 20 bytes: AA 55 90 EB, the address, the
\* length, the value least significant byte first (bytes 6, 7 hold the low
\* half, bytes 8, 9 the high half), nine zero bytes, and the sum of the
\* first 19 bytes modulo 256.
C18_CommandLayout ==
    call.op = "writeRegister"
        => LET f == call.frame IN
           /\ Len(f) = 20
           /\ \A k \in 1..20 : f[k] \in 0..255
           /\ SubSeq(f, 1, 4) = <<170, 85, 144, 235>>
           /\ f[5] = call.address
           /\ f[6] = call.length
           /\ f[7] + 256 * f[8] = call.value[2]
           /\ f[9] + 256 * f[10] = call.value[1]
           /\ f[7] = call.value[2] % 256
           /\ f[10] = call.value[1] \div 256
           /\ \A k \in 11..19 : f[k] = 0
           /\ f[20] = SumBytes(f, 19) % 256

\* C18 witness: writeRegister(0xFF, 0x01020304, 0xFF) built a frame whose
\* bytes 6..9 are 04 03 02 01.
C18_Witness ==
    /\ call.op = "writeRegister" /\ call.address = 255
    /\ call.value = <<258, 772>> /\ call.length = 255
    /\ SubSeq(call.frame, 7, 10) = <<4, 3, 2, 1>>

\* The call decoded a cell-data frame on device i.
CellDataDecoded(i) ==
    call.op = "handleNotification" /\ call.dev = i /\ call.decoder = "parseData"

\* The temperature, in tenths of a degree, the claim gives the pair (lo, hi).
ClaimedTemp(hi, lo) == IF hi = 255 THEN lo - 256 ELSE hi * 256 + lo

\* C19: after a cell-data decode the MOS temperature, T1 and T2, in tenths
\* of a degree, are lo - 256 when the high byte (145, 163, 165) is 0xFF and
\* hi * 256 + lo, not negative, for every other high byte; 38 FF gives -200.
C19_TemperatureDecoding ==
    \A i \in Devices :
        CellDataDecoded(i)
            => LET rb == jkBmsDevices[i].receivedBytes
                   t == jkBmsDevices[i].data
               IN /\ t.MOS_Temp = ClaimedTemp(At(rb, 145), At(rb, 144))
                  /\ t.Battery_T1 = ClaimedTemp(At(rb, 163), At(rb, 162))
                  /\ t.Battery_T2 = ClaimedTemp(At(rb, 165), At(rb, 164))
                  /\ At(rb, 145) # 255 => t.MOS_Temp >= 0
                  /\ At(rb, 163) # 255 => t.Battery_T1 >= 0
                  /\ At(rb, 165) # 255 => t.Battery_T2 >= 0
                  /\ (At(rb, 145) = 255 /\ At(rb, 144) = 56)
                        => t.MOS_Temp = -200

\* C19 witness: a frame with 38 FF at 144-145 was decoded to a MOS
\* temperature of -200 tenths; its T1 and T2 have the high bytes 00 and 01.
C19_Witness ==
    \E i \in Devices :
        /\ CellDataDecoded(i)
        /\ At(jkBmsDevices[i].receivedBytes, 144) = 56
        /\ At(jkBmsDevices[i].receivedBytes, 145) = 255
        /\ jkBmsDevices[i].data.MOS_Temp = -200
        /\ At(jkBmsDevices[i].receivedBytes, 163) = 0
        /\ At(jkBmsDevices[i].receivedBytes, 165) = 1

\* C19 witness for the high bytes 0x80..0xFE: a decoded temperature of
\* 32768 tenths or more.
HighTempDecoded ==
    \E i \in Devices :
        /\ CellDataDecoded(i)
        /\ At(jkBmsDevices[i].receivedBytes, 145) \in 128..254
        /\ jkBmsDevices[i].data.MOS_Temp >= 32768

\* C20: after a cell-data decode the balancing current, in milliamps, is
\* byte171 * 256 + byte170 when the high nibble of byte 171 is 0x0 and
\* -((byte171 AND 0x0F) * 256 + byte170) when it is 0xF; 64 00 gives +100
\* and 64 F0 gives -100.
C20_BalancingCurrent ==
    \A i \in Devices :
        CellDataDecoded(i)
            => LET hi == At(jkBmsDevices[i].receivedBytes, 171)
                   lo == At(jkBmsDevices[i].receivedBytes, 170)
                   v == jkBmsDevices[i].data.Balance_Curr
               IN /\ hi < 16 => v = hi * 256 + lo
                  /\ hi >= 240 => v = 0 - ((hi - 240) * 256 + lo)
                  /\ (hi = 0 /\ lo = 100) => v = 100
                  /\ (hi = 240 /\ lo = 100) => v = -100

\* C20 witness: a frame with 64 F0 at 170-171 was decoded to -100 mA.
C20_Witness ==
    \E i \in Devices :
        /\ CellDataDecoded(i)
        /\ At(jkBmsDevices[i].receivedBytes, 170) = 100
        /\ At(jkBmsDevices[i].receivedBytes, 171) = 240
        /\ jkBmsDevices[i].data.Balance_Curr = -100

\* C20 for the positive case: 64 00 at 170-171 was decoded to +100 mA.
PositiveBalanceDecoded ==
    \E i \in Devices :
        /\ CellDataDecoded(i)
        /\ At(jkBmsDevices[i].receivedBytes, 170) = 100
        /\ At(jkBmsDevices[i].receivedBytes, 171) = 0
        /\ jkBmsDevices[i].data.Balance_Curr = 100

\* C21: a call that decodes a cell-data frame whose byte 171 has a high
\* nibble other than 0x0 and 0xF completes as any other decode: Balance_Curr
\* keeps the value it had before, every other telemetry field is the
\* decoder's reading of the new frame (spot-checked against the bytes), and
\* the throttle is armed with 10.
C21_UndefinedNibbleKeepsBalance ==
    [][\A i \in Devices :
        ( /\ Handled(i) /\ call'.decoder = "parseData"
          /\ At(jkBmsDevices'[i].receivedBytes, 171) \div 16 \notin {0, 15} )
            => LET d == jkBmsDevices[i]
                   e == jkBmsDevices'[i]
                   rb == e.receivedBytes
               IN /\ e.data.Balance_Curr = d.data.Balance_Curr
                  /\ [e.data EXCEPT !.Balance_Curr = 0]
                        = [CellData(e) EXCEPT !.Balance_Curr = 0]
                  /\ e.data.Balancing_Action = At(rb, 172)
                  /\ e.data.Percent_Remain = At(rb, 173)
                  /\ e.data.MOS_Temp = ClaimedTemp(At(rb, 145), At(rb, 144))
                  /\ e.data.cellVoltage[0] = At(rb, 6) + 256 * At(rb, 7)
                  /\ e.data.wireResist[15] = At(rb, 110) + 256 * At(rb, 111)
                  /\ e.data.Charge = (At(rb, 198) > 0)
                  /\ e.ignoreNotifyCount = ThrottleArm
                  /\ e.received_complete
      ]_vars

\* C21 witness: a frame with sign byte 0x50 was decoded; the balancing
\* current is still the 0F 64 = 3940 mA of an earlier frame, while the MOS
\* temperature is the new frame's.
C21_Witness ==
    \E i \in Devices :
        /\ CellDataDecoded(i)
        /\ At(jkBmsDevices[i].receivedBytes, 171) = 80
        /\ jkBmsDevices[i].data.Balance_Curr = 3940
        /\ jkBmsDevices[i].data.MOS_Temp = 80 * 256 + 56
        /\ jkBmsDevices[i].ignoreNotifyCount = ThrottleArm

\* The 24-bit uptime value in bytes 194..196 of a buffer, little-endian.
UptimeValue(rb) == At(rb, 194) + 256 * At(rb, 195) + 65536 * At(rb, 196)

\* C22: after a cell-data decode, with v the 24-bit little-endian value of
\* bytes 194..196, sec = v mod 60, mi = (v div 60) mod 60,
\* hr = (v div 3600) mod 24 and days = v div 86400, each within 0..255, and
\* days*86400 + hr*3600 + mi*60 + sec = v; v = 90065 gives 1 d 1 h 1 min 5 s.
C22_UptimeDecomposition ==
    \A i \in Devices :
        CellDataDecoded(i)
            => LET v == UptimeValue(jkBmsDevices[i].receivedBytes)
                   t == jkBmsDevices[i].data
               IN /\ t.sec = v % 60
                  /\ t.mi = (v \div 60) % 60
                  /\ t.hr = (v \div 3600) % 24
                  /\ t.days = v \div 86400
                  /\ {t.sec, t.mi, t.hr, t.days} \subseteq 0..255
                  /\ t.days * 86400 + t.hr * 3600 + t.mi * 60 + t.sec = v
                  /\ v = 90065
                        => t.days = 1 /\ t.hr = 1 /\ t.mi = 1 /\ t.sec = 5

\* C22 witness: the frame with uptime 90065 was decoded to 1 d 1 h 1 min 5 s.
C22_Witness ==
    \E i \in Devices :
        /\ CellDataDecoded(i)
        /\ UptimeValue(jkBmsDevices[i].receivedBytes) = 90065
        /\ jkBmsDevices[i].data.days = 1
        /\ jkBmsDevices[i].data.hr = 1
        /\ jkBmsDevices[i].data.mi = 1
        /\ jkBmsDevices[i].data.sec = 5

\* C22 at the top of the range: uptime 0xFFFFFF was decoded to 194 days.
LongestUptimeDecoded ==
    \E i \in Devices :
        /\ CellDataDecoded(i)
        /\ UptimeValue(jkBmsDevices[i].receivedBytes) = 16777215
        /\ jkBmsDevices[i].data.days = 194

\* C23: after a cell-data decode the battery voltage, in millivolts, is the
\* unsigned value b150 + 2^8*b151 + 2^16*b152 + 2^24*b153: it is not
\* negative, its upper half is b153*256 + b152 and its lower half is
\* b151*256 + b150.
C23_BatteryVoltageUnsigned ==
    \A i \in Devices :
        CellDataDecoded(i)
            => LET rb == jkBmsDevices[i].receivedBytes
                   v == jkBmsDevices[i].data.Battery_Voltage
               IN /\ v >= 0
                  /\ v \div 65536 = At(rb, 153) * 256 + At(rb, 152)
                  /\ v % 65536 = At(rb, 151) * 256 + At(rb, 150)

\* C24: after a cell-data decode the charge current, in milliamps, is the
\* two's-complement reading of bytes 158..161: the low 31 bits as a number,
\* less 2^31 when bit 7 of byte 161 is set; it is negative exactly then.
C24_ChargeCurrentSigned ==
    \A i \in Devices :
        CellDataDecoded(i)
            => LET rb == jkBmsDevices[i].receivedBytes
                   v == jkBmsDevices[i].data.Charge_Current
                   low31 == (At(rb, 161) % 128) * 16777216 + At(rb, 160) * 65536
                              + At(rb, 159) * 256 + At(rb, 158)
               IN /\ v = IF At(rb, 161) >= 128
                            THEN (low31 - 2147483647) - 1
                            ELSE low31
                  /\ (v < 0) <=> (At(rb, 161) >= 128)

\* C24 witness: a frame with FF in byte 161 was decoded to a negative
\* current whose top byte is all ones.
C24_Witness ==
    \E i \in Devices :
        /\ CellDataDecoded(i)
        /\ At(jkBmsDevices[i].receivedBytes, 161) = 255
        /\ jkBmsDevices[i].data.Charge_Current < 0
        /\ jkBmsDevices[i].data.Charge_Current \div 16777216 = -1

\* C24 for the positive case: byte 161 is 7F and the current is positive.
PositiveCurrentDecoded ==
    \E i \in Devices :
        /\ CellDataDecoded(i)
        /\ At(jkBmsDevices[i].receivedBytes, 161) = 127
        /\ jkBmsDevices[i].data.Charge_Current \div 16777216 = 127

\* C25: after a cell-data decode, for k = 0..15 cell voltage k, in
\* millivolts, is byte[6+2k] + 256*byte[7+2k] and wire resistance k, in
\* milliohms, is byte[80+2k] + 256*byte[81+2k]; each array has exactly the
\* entries 0..15; bytes 10 0C give 3088.
C25_CellSlotMapping ==
    \A i \in Devices :
        CellDataDecoded(i)
            => LET rb == jkBmsDevices[i].receivedBytes
                   t == jkBmsDevices[i].data
               IN /\ DOMAIN t.cellVoltage = 0..15
                  /\ DOMAIN t.wireResist = 0..15
                  /\ \A k \in 0..15 :
                        /\ t.cellVoltage[k]
                             = At(rb, 6 + 2 * k) + 256 * At(rb, 7 + 2 * k)
                        /\ t.wireResist[k]
                             = At(rb, 80 + 2 * k) + 256 * At(rb, 81 + 2 * k)
                  /\ (At(rb, 6) = 16 /\ At(rb, 7) = 12)
                        => t.cellVoltage[0] = 3088

\* C25 witness: a frame with 10 0C at bytes 6-7 was decoded; cell 0 reads
\* 3088 mV, and cell 15 and wire 15 are not zero.
C25_Witness ==
    \E i \in Devices :
        /\ CellDataDecoded(i)
        /\ At(jkBmsDevices[i].receivedBytes, 6) = 16
        /\ At(jkBmsDevices[i].receivedBytes, 7) = 12
        /\ jkBmsDevices[i].data.cellVoltage[0] = 3088
        /\ jkBmsDevices[i].data.cellVoltage[15] > 0
        /\ jkBmsDevices[i].data.wireResist[15] > 0

\* The offset of the lowest byte each assignment of bms_settings reads.
SettingsOffsets ==
    [ cell_voltage_undervoltage_protection |-> 10,
      cell_voltage_undervoltage_recovery |-> 14,
      cell_voltage_overvoltage_protection |-> 18,
      cell_voltage_overvoltage_recovery |-> 22,
      balance_trigger_voltage |-> 26,
      power_off_voltage |-> 46,
      max_charge_current |-> 50,
      charge_overcurrent_protection_delay |-> 54,
      charge_overcurrent_protection_recovery_time |-> 58,
      max_discharge_current |-> 62,
      discharge_overcurrent_protection_delay |-> 66,
      discharge_overcurrent_protection_recovery_time |-> 70,
      short_circuit_protection_recovery_time |-> 74,
      max_balance_current |-> 78,
      charge_overtemperature_protection |-> 82,
      charge_overtemperature_protection_recovery |-> 86,
      discharge_overtemperature_protection |-> 90,
      discharge_overtemperature_protection_recovery |-> 94,
      charge_undertemperature_protection |-> 98,
      charge_undertemperature_protection_recovery |-> 102,
      power_tube_overtemperature_protection |-> 106,
      power_tube_overtemperature_protection_recovery |-> 110,
      cell_count |-> 114,
      total_battery_capacity |-> 130,
      short_circuit_protection_delay |-> 134,
      balance_starting_voltage |-> 138 ]

\* The device as the dispatcher finds it when the notification pData
\* completes a frame on device d.
BeforeDecode(d, pData) ==
    [StoreBytes([d EXCEPT !.lastNotifyTime = millis], pData)
        EXCEPT !.received_complete = TRUE,
               !.received_start = FALSE,
               !.new_data = TRUE]

\* A call that decodes a settings frame, for a table of `entries` fields:
\* every settings field is the 4-byte little-endian group at its offset,
\* the groups lie inside bytes 10..141 and do not overlap, and nothing but
\* the settings differs from the device as the dispatcher found it.
SettingsDecodeStep(entries) ==
    \A i \in Devices :
        (Handled(i) /\ call'.decoder = "bms_settings")
            => LET e == jkBmsDevices'[i]
                   p == BeforeDecode(jkBmsDevices[i], call'.pData)
                   rb == e.receivedBytes
                   F == DOMAIN SettingsOffsets
               IN /\ Cardinality(F) = entries
                  /\ DOMAIN e.settings = F
                  /\ \A f \in F :
                        /\ SettingsOffsets[f] >= 10
                        /\ SettingsOffsets[f] + 3 <= 141
                        /\ e.settings[f] % 65536
                             = At(rb, SettingsOffsets[f])
                               + 256 * At(rb, SettingsOffsets[f] + 1)
                        /\ (e.settings[f] \div 65536) % 65536
                             = At(rb, SettingsOffsets[f] + 2)
                               + 256 * At(rb, SettingsOffsets[f] + 3)
                  /\ \A f, g \in F :
                        f # g => \/ SettingsOffsets[f] + 4 <= SettingsOffsets[g]
                                 \/ SettingsOffsets[g] + 4 <= SettingsOffsets[f]
                  /\ e = [p EXCEPT !.settings = e.settings]
                  /\ e.data = jkBmsDevices[i].data
                  /\ e.ignoreNotifyCount = jkBmsDevices[i].ignoreNotifyCount
                  /\ e.frame = FrameSize

\* C26 as stated: the settings decoder works from a table of exactly 25
\* entries, each one 4-byte little-endian group inside bytes 10..141, no
\* two overlapping, and decoding writes settings fields only.
C26_SettingsTable25 == [][SettingsDecodeStep(25)]_vars

\* C26 amended: the settings decoder works from a table of exactly 26
\* entries, each one 4-byte little-endian group inside bytes 10..141, no
\* two overlapping, and decoding writes settings fields only (telemetry,
\* cursor, buffer and throttle counter are as the dispatcher found them).
C26_SettingsTable26 == [][SettingsDecodeStep(26)]_vars

\* C26 witness: a settings frame of the varied payload was decoded; the
\* cell count has the bytes 114 and 117 of the frame as its lowest and
\* highest byte, and the balance starting voltage byte 138 as its lowest.
C26_Witness ==
    \E i \in Devices :
        /\ call.op = "handleNotification" /\ call.dev = i
        /\ call.decoder = "bms_settings"
        /\ At(jkBmsDevices[i].receivedBytes, 114) = 33
        /\ jkBmsDevices[i].settings.cell_count % 256 = 33
        /\ jkBmsDevices[i].settings.cell_count \div 16777216 = 54
        /\ jkBmsDevices[i].settings.balance_starting_voltage % 256 = 201
        /\ jkBmsDevices[i].data = DataInit

\* C27: a notification of a characteristic is handled by at most one
\* device, the lowest-index one whose pChr is that characteristic; the
\* call leaves every other device as it was; and after any interleaving
\* each device is in the state it would have had its own notifications been
\* the only ones delivered.
C27_PerDeviceIsolation ==
    [][ call'.op = "notifyCB"
          => LET c == call'.pChr
                 D == DOMAIN jkBmsDevices
                 T == { i \in D : jkBmsDevices[i].pChr = c }
                 first == { i \in T : \A j \in T : i <= j }
             IN /\ call'.delivered = first
                /\ Cardinality(call'.delivered) <= 1
                /\ \A i \in D \ first : jkBmsDevices'[i] = jkBmsDevices[i]
                /\ \A i \in first :
                      jkBmsDevices'[i]
                        = handleNotification(jkBmsDevices[i], call'.pData,
                                             millis).dev
                /\ DOMAIN jkBmsDevices' = D
                /\ \A i \in D : jkBmsDevices'[i] = alone'[i]
      ]_vars

\* C27 witness: device 1 has just completed a frame whose first half came
\* before the notification that device 0 handled in between; device 0 is in
\* the middle of its own frame, which has the other payload.
C27_Witness ==
    /\ call.op = "notifyCB"
    /\ call.delivered = {1}
    /\ call.path = {"complete"}
    /\ call.previous = {0}
    /\ jkBmsDevices[0].frame = SplitAt
    /\ Accumulating(jkBmsDevices[0])
    /\ At(jkBmsDevices[0].receivedBytes, 5) = Payload(1, 5)
    /\ At(jkBmsDevices[1].receivedBytes, 5) = Payload(0, 5)
    /\ At(jkBmsDevices[1].receivedBytes, FrameSize - 1) = Payload(0, FrameSize - 1)
    /\ jkBmsDevices[1].ignoreNotifyCount = ThrottleArm
    /\ jkBmsDevices[0].ignoreNotifyCount = 0

\* C27 where two entries hold the same characteristic: entry 0 has decoded
\* a frame, entry 1 was never called.
SharedCharacteristicFirstOnly ==
    /\ call.op = "notifyCB"
    /\ jkBmsDevices[0].pChr = jkBmsDevices[1].pChr
    /\ jkBmsDevices[0].received_complete
    /\ jkBmsDevices[1] = [NewJKBMS EXCEPT !.pChr = jkBmsDevices[0].pChr]

\* C28: in every call of the handler the throttle counter found is within
\* 0..10; a positive counter is lowered by exactly one, so it is 0 after at
\* most 10 further deliveries; and a counter of 0 and a chunk of at least 4
\* bytes that begins with 55 AA EB 90 start a new frame, whatever the state
\* found: cursor = min(length, 300), the buffer holds the chunk's bytes,
\* received_start is set and received_complete cleared.
C28_Recovery ==
    [][\A i \in Devices :
        Handled(i)
            => LET d == jkBmsDevices[i]
                   e == jkBmsDevices'[i]
                   n == Min(call'.length, FrameSize)
               IN /\ d.ignoreNotifyCount \in 0..ThrottleArm
                  /\ e.ignoreNotifyCount \in 0..ThrottleArm
                  /\ d.ignoreNotifyCount > 0
                        => e.ignoreNotifyCount = d.ignoreNotifyCount - 1
                  /\ sinceData'[i] >= ThrottleArm => e.ignoreNotifyCount = 0
                  /\ (d.ignoreNotifyCount = 0 /\ call'.marker)
                        => /\ call'.path = "start"
                           /\ e.frame = n
                           /\ SubSeq(e.receivedBytes, 1, n)
                                = SubSeq(call'.pData, 1, n)
                           /\ e.received_start
                           /\ ~e.received_complete
      ]_vars

\* C28 witness: a cell-data frame was decoded, ten notifications were
\* consumed by the throttle, and the eleventh, a first half of a frame,
\* has started a new frame.
C28_Witness ==
    \E i \in Devices :
        /\ call.op = "handleNotification" /\ call.dev = i
        /\ call.path = "start"
        /\ call.throttle = 0
        /\ sinceData[i] = ThrottleArm + 1
        /\ jkBmsDevices[i].frame = SplitAt
        /\ Accumulating(jkBmsDevices[i])
        /\ SubSeq(jkBmsDevices[i].receivedBytes, 1, SplitAt) = call.pData

\* C28 from a frame being accumulated: a start sequence arrived in the
\* middle of a frame and a chunk longer than a frame was taken up to 300.
RestartedMidFrame ==
    \E i \in Devices :
        /\ call.op = "handleNotification" /\ call.dev = i
        /\ call.path = "start"
        /\ call.accumulating
        /\ call.length = MaxChunkLen
        /\ jkBmsDevices[i].frame = FrameSize

\* C29: in every reachable state the cursor is within 0..300, the buffer
\* has its 320 bytes, and the bytes 300..319 are as constructed: no call
\* has written outside 0..299.
C29_CursorAndBufferBounds ==
    \A i \in Devices :
        LET d == jkBmsDevices[i] IN
        /\ d.frame \in 0..FrameSize
        /\ Len(d.receivedBytes) = BufferSize
        /\ \A k \in FrameSize..(BufferSize - 1) :
              At(d.receivedBytes, k) = At(NewJKBMS.receivedBytes, k)

\* C29 witness: a chunk longer than a frame was stored; the cursor stopped
\* at 300, byte 299 is the chunk's, byte 300 was not written.
C29_Witness ==
    \E i \in Devices :
        /\ call.op = "handleNotification" /\ call.dev = i
        /\ call.length = MaxChunkLen
        /\ call.path = "start"
        /\ jkBmsDevices[i].frame = FrameSize
        /\ At(jkBmsDevices[i].receivedBytes, FrameSize - 1) = 255
        /\ At(jkBmsDevices[i].receivedBytes, FrameSize) = 0

\* C30: in every reachable state received_start and received_complete are
\* not both true, and received_complete implies frame = 300.
C30_FlagsExclusive ==
    \A i \in Devices :
        LET d == jkBmsDevices[i] IN
        /\ ~(d.received_start /\ d.received_complete)
        /\ d.received_complete => d.frame = FrameSize

\* C30 witness: a frame was completed: received_complete is set,
\* received_start is cleared and the cursor is 300.
C30_Witness ==
    \E i \in Devices :
        /\ call.op = "handleNotification" /\ call.dev = i
        /\ call.path = "complete"
        /\ jkBmsDevices[i].received_complete
        /\ ~jkBmsDevices[i].received_start
        /\ jkBmsDevices[i].frame = FrameSize

\* C30 after a completed frame: the next start sequence clears
\* received_complete.
StartedAfterComplete ==
    \E i \in Devices :
        /\ call.op = "handleNotification" /\ call.dev = i
        /\ call.path = "start"
        /\ ~call.accumulating
        /\ jkBmsDevices[i].settings # SettingsInit
        /\ jkBmsDevices[i].received_start
        /\ ~jkBmsDevices[i].received_complete

\* The type byte of the frame in the buffer of device d.
TypeByte(d) == At(d.receivedBytes, 4)

\* C31: in every call of the handler the throttle counter is within 0..10
\* before and after; it changes only by a decrement of exactly 1, made by
\* every call that finds it positive, or by being set to 10 by the
\* cell-data decoder; the settings decoder, the device-info decoder and a
\* frame of unknown type leave it as it was.
C31_ThrottleCounter ==
    [][\A i \in Devices :
        Handled(i)
            => LET d == jkBmsDevices[i]
                   e == jkBmsDevices'[i]
               IN /\ d.ignoreNotifyCount \in 0..ThrottleArm
                  /\ e.ignoreNotifyCount \in 0..ThrottleArm
                  /\ IF d.ignoreNotifyCount > 0
                        THEN /\ e.ignoreNotifyCount = d.ignoreNotifyCount - 1
                             /\ call'.decoder = "none"
                        ELSE IF call'.decoder = "parseData"
                        THEN e.ignoreNotifyCount = ThrottleArm
                        ELSE e.ignoreNotifyCount = 0
                  /\ (call'.path = "complete" /\ TypeByte(e) # 2)
                        => e.ignoreNotifyCount = d.ignoreNotifyCount
                  /\ (call'.path = "complete" /\ TypeByte(e) = 2)
                        => call'.decoder = "parseData"
      ]_vars

\* C31 witness: a settings frame was completed on a device that had
\* decoded cell data before and whose throttle had run out; the counter is
\* still 0.
C31_Witness ==
    \E i \in Devices :
        /\ call.op = "handleNotification" /\ call.dev = i
        /\ call.decoder = "bms_settings"
        /\ sinceData[i] > ThrottleArm
        /\ jkBmsDevices[i].ignoreNotifyCount = 0

\* C31 for the other frame types: a device-info frame and a frame of
\* unknown type were completed with the counter left at 0.
OtherTypesLeaveThrottle ==
    \E i \in Devices :
        /\ call.op = "handleNotification" /\ call.dev = i
        /\ call.path = "complete"
        /\ TypeByte(jkBmsDevices[i]) \in {3, 4}
        /\ jkBmsDevices[i].ignoreNotifyCount = 0

SettingsFrameSetsNewData ==
    \E i \in Devices :
        /\ call.op = "handleNotification" /\ call.dev = i
        /\ call.decoder = "bms_settings"
        /\ jkBmsDevices[i].new_data

\* C32 at the completions: a device-info frame left new_data false on a
\* device where it was true.
DeviceInfoClearsNewData ==
    \E i \in Devices :
        /\ call.op = "handleNotification" /\ call.dev = i
        /\ call.decoder = "parseDeviceInfo"
        /\ jkBmsDevices[i].settings # SettingsInit
        /\ ~jkBmsDevices[i].new_data

\* C33: after a cell-data decode the field Uptime is v div 3600, with v the
\* 24-bit value of bytes 194..196; it is the value v only when that is 0.
C33_UptimeHoldsHours ==
    \A i \in Devices :
        CellDataDecoded(i)
            => LET v == UptimeValue(jkBmsDevices[i].receivedBytes)
                   u == jkBmsDevices[i].data.Uptime
               IN /\ u = v \div 3600
                  /\ (u = v) <=> (v = 0)
                  /\ u = jkBmsDevices[i].data.days * 24 + jkBmsDevices[i].data.hr

\* C33 witness: the frame with 90065 s of uptime was decoded; Uptime is 25.
C33_Witness ==
    \E i \in Devices :
        /\ CellDataDecoded(i)
        /\ UptimeValue(jkBmsDevices[i].receivedBytes) = 90065
        /\ jkBmsDevices[i].data.Uptime = 25

\* C34: a call of writeRegister leaves every device as it was, also a
\* device in the middle of a frame; it writes one frame of 20 bytes to the
\* characteristic when pChr is set and nothing when pChr is null.
C34_WriteRegisterFrame ==
    [][\A i \in Devices :
        (call'.op = "writeRegister" /\ call'.dev = i)
            => /\ jkBmsDevices' = jkBmsDevices
               /\ IF jkBmsDevices[i].pChr # nullptr
                    THEN /\ Len(call'.written) = 1
                         /\ Len(call'.written[1]) = CommandSize
                         /\ call'.written[1] = call'.frame
                    ELSE call'.written = <<>>
      ]_vars

\* C34 witness: a command was written for a device that holds the first
\* half of a frame; the half frame is still there.
C34_Witness ==
    \E i \in Devices :
        /\ call.op = "writeRegister" /\ call.dev = i
        /\ Len(call.written) = 1
        /\ Accumulating(jkBmsDevices[i])
        /\ jkBmsDevices[i].frame = SplitAt
        /\ At(jkBmsDevices[i].receivedBytes, 4) = 2

\* C34 without a characteristic: the call wrote nothing.
NothingWrittenWithoutCharacteristic ==
    \E i \in Devices :
        /\ call.op = "writeRegister" /\ call.dev = i
        /\ jkBmsDevices[i].pChr = nullptr
        /\ call.written = <<>>

\* The step is the timeout test of loop() on device i.
TimeoutTested(i) == call'.op = "loopTimeout" /\ call'.dev = i

\* C35: every notification handled refreshes lastNotifyTime, whatever
\* branch the handler takes; and the timeout test of loop() disconnects
\* and clears connected only when more than 25000 ms have passed since the
\* last notification handled, and leaves connected alone otherwise.
C35_TimeoutOnlyAfterSilence ==
    [][\A i \in Devices :
        /\ Handled(i) => jkBmsDevices'[i].lastNotifyTime = millis
        /\ (TimeoutTested(i) /\ call'.disconnected)
              => /\ ~jkBmsDevices'[i].connected
                 /\ ble[i].lastDelivery >= 0
                       => millis - ble[i].lastDelivery > NotifyTimeout
        /\ (TimeoutTested(i) /\ ~call'.disconnected)
              => jkBmsDevices'[i] = jkBmsDevices[i]
      ]_vars

\* C35, the part that holds: every notification handled, throttled, short
\* and stray ones included, refreshes lastNotifyTime.
EveryDeliveryRefreshes ==
    [][\A i \in Devices :
        Handled(i) => /\ jkBmsDevices'[i].lastNotifyTime = millis
                      /\ ble'[i].lastDelivery = millis
      ]_vars

\* C35 when nothing happens between the two reads of the test: the
\* disconnect is made only after more than 25000 ms without a notification.
UninterruptedTimeoutTest ==
    [][\A i \in Devices :
        ( /\ TimeoutTested(i) /\ call'.disconnected
          /\ call'.now = millis
          /\ call'.last = jkBmsDevices[i].lastNotifyTime
          /\ ble[i].lastDelivery >= 0 )
            => millis - ble[i].lastDelivery > NotifyTimeout
      ]_vars

\* C35: the clock was read before a notification refreshed lastNotifyTime
\* to a later reading; the difference wrapped and the device was
\* disconnected in the millisecond of a notification.
SpuriousTimeout ==
    \E i \in Devices :
        /\ call.op = "loopTimeout" /\ call.dev = i
        /\ call.disconnected
        /\ call.now < call.last
        /\ ble[i].lastDelivery = millis
        /\ ~jkBmsDevices[i].connected

\* The step is a connectToServer call on device i.
ConnectCalled(i) == call'.op = "connectToServer" /\ call'.dev = i

\* The stack's answers let connectToServer reach the end of its setup.
SetupObtained(o) ==
    /\ o.client \in {"existing", "created"}
    /\ o.failures < 3
    /\ o.service
    /\ o.chr = "found"
    /\ o.subscribe

\* C36: a connectToServer call makes at most 3 connection attempts; when
\* all 3 fail, or the service, the notifiable characteristic or the
\* subscription is not obtained (or no client is to be had), it returns
\* false, has written no command, and has not itself changed connected; it
\* makes a fourth attempt in no case.
C36_ConnectFailure ==
    [][\A i \in Devices :
        ConnectCalled(i)
            => LET o == call'.outcome IN
               /\ call'.attempts \in 0..3
               /\ (o.client \in {"existing", "created"} /\ o.failures >= 3)
                     => call'.attempts = 3 /\ ~call'.linked
               /\ ~SetupObtained(o)
                     => /\ ~call'.returned
                        /\ call'.sent = <<>>
                        /\ call'.own.connected = jkBmsDevices[i].connected
                        /\ ~call'.subscribed
               /\ call'.returned \in BOOLEAN
      ]_vars

\* C36 witness: all three connection attempts failed; the call returned
\* false with nothing written and connected false.
C36_Witness ==
    \E i \in Devices :
        /\ call.op = "connectToServer" /\ call.dev = i
        /\ call.attempts = 3
        /\ ~call.linked
        /\ ~call.returned
        /\ call.sent = <<>>
        /\ ~jkBmsDevices[i].connected

\* C36 after the link came up: the subscription failed, the call returned
\* false and disconnected; connected is true by onConnect alone.
SetupFailedAfterLink ==
    \E i \in Devices :
        /\ call.op = "connectToServer" /\ call.dev = i
        /\ call.linked /\ ~call.returned /\ call.disconnect
        /\ ~call.outcome.subscribe
        /\ ~call.own.connected
        /\ jkBmsDevices[i].connected
        /\ jkBmsDevices[i].pChr # nullptr

\* The command in a written frame: address, length and the four value
\* bytes, lowest first.
CommandOf(f) == <<f[5], f[6], f[7], f[8], f[9], f[10]>>

\* C37: a connectToServer call returns true only when the subscription
\* succeeded; then connected is true and exactly five frames of 20 bytes
\* were written, in the order 0x97 and 0x96 (value 0, length 0), then
\* 0x1D, 0x1E, 0x1F (value 1, length 4).
C37_ConnectSuccess ==
    [][\A i \in Devices :
        (ConnectCalled(i) /\ call'.returned)
            => /\ SetupObtained(call'.outcome)
               /\ call'.subscribed
               /\ jkBmsDevices'[i].connected
               /\ call'.own.connected
               /\ Len(call'.sent) = 5
               /\ \A k \in 1..5 :
                     /\ Len(call'.sent[k]) = CommandSize
                     /\ SubSeq(call'.sent[k], 1, 4) = <<170, 85, 144, 235>>
               /\ [k \in 1..5 |-> CommandOf(call'.sent[k])]
                     = << <<151, 0, 0, 0, 0, 0>>, <<150, 0, 0, 0, 0, 0>>,
                          <<29, 4, 1, 0, 0, 0>>, <<30, 4, 1, 0, 0, 0>>,
                          <<31, 4, 1, 0, 0, 0>> >>
      ]_vars

\* C37 witness: a call returned true on its third connection attempt; the
\* device is connected and subscribed, five frames were written.
C37_Witness ==
    \E i \in Devices :
        /\ call.op = "connectToServer" /\ call.dev = i
        /\ call.returned
        /\ call.attempts = 3
        /\ Len(call.sent) = 5
        /\ jkBmsDevices[i].connected
        /\ jkBmsDevices[i].pChr = CharacteristicOf(i)
        /\ jkBmsDevices[i].lastNotifyTime = millis

\* C38: the scan callback sets doConnect for a device only when the
\* address is its targetMAC and it is neither connected nor pending, and
\* changes nothing else; loop() calls connectToServer only on a device
\* with doConnect true and connected false, and doConnect is false after
\* the call, whatever it returned; onDisconnect leaves connected and
\* doConnect false.
C38_ConnectionRequests ==
    [][\A i \in Devices :
        LET d == jkBmsDevices[i]
            e == jkBmsDevices'[i]
        IN /\ call'.op = "onResult"
                 => IF /\ call'.address = TargetMAC(i)
                       /\ ~d.connected /\ ~d.doConnect
                    THEN e = [d EXCEPT !.doConnect = TRUE,
                                       !.advDevice = call'.address]
                    ELSE e = d
           /\ ConnectCalled(i)
                 => /\ d.doConnect /\ ~d.connected
                    /\ ~e.doConnect
           /\ (call'.op = "onDisconnect" /\ call'.dev = i)
                 => ~e.connected /\ ~e.doConnect
      ]_vars

\* C38 witness: a connectToServer call failed and doConnect is cleared.
C38_Witness ==
    \E i \in Devices :
        /\ call.op = "connectToServer" /\ call.dev = i
        /\ ~call.returned
        /\ ~jkBmsDevices[i].doConnect
        /\ jkBmsDevices[i].advDevice = TargetMAC(i)

\* C38 at the scan callback: a report of the device's address left a
\* connected device without a request, and a report of another address
\* left an idle device without one.
ScanReportIgnored ==
    \E i \in Devices :
        /\ call.op = "onResult"
        /\ ~jkBmsDevices[i].doConnect
        /\ \/ call.address = TargetMAC(i) /\ jkBmsDevices[i].connected
           \/ call.address # TargetMAC(i) /\ ~jkBmsDevices[i].connected

\* C38 at onDisconnect: a pending request was cleared with the link.
DisconnectClearsRequest ==
    \E i \in Devices :
        /\ call.op = "onDisconnect" /\ call.dev = i
        /\ ~jkBmsDevices[i].doConnect
        /\ ~jkBmsDevices[i].connected
        /\ ble[i].epoch > 0

\* C39: onDisconnect, the timeout test of loop() and connectToServer leave
\* frame, receivedBytes, received_start, received_complete and
\* ignoreNotifyCount as they were; and a chunk that continues a frame
\* started under an earlier connection is appended to what that connection
\* left in the buffer.
C39_ReassemblerSurvivesReconnect ==
    [][\A i \in Devices :
        LET d == jkBmsDevices[i]
            e == jkBmsDevices'[i]
        IN /\ ( /\ call'.op \in {"onDisconnect", "loopTimeout",
                                  "connectToServer"}
                /\ call'.dev = i )
                 => /\ Reassembler(e) = Reassembler(d)
                    /\ e.ignoreNotifyCount = d.ignoreNotifyCount
           /\ ( /\ Handled(i)
                /\ ble[i].startEpoch >= 0
                /\ ble[i].startEpoch < ble[i].epoch
                /\ ~call'.marker /\ call'.length >= MinHeader
                /\ d.ignoreNotifyCount = 0
                /\ Accumulating(d) )
                 => /\ call'.path \in {"append", "complete"}
                    /\ e.frame = Min(d.frame + call'.length, FrameSize)
                    /\ SubSeq(e.receivedBytes, 1, d.frame)
                         = SubSeq(d.receivedBytes, 1, d.frame)
      ]_vars

\* C39 witness: the first half of a frame arrived under the first
\* connection, the second half under the second, and the frame was
\* completed and decoded.
C39_Witness ==
    \E i \in Devices :
        /\ call.op = "handleNotification" /\ call.dev = i
        /\ call.path = "complete"
        /\ ble[i].startEpoch = 1
        /\ ble[i].epoch = 2
        /\ jkBmsDevices[i].ignoreNotifyCount = ThrottleArm

\* C39 for the throttle: a new connection was set up on a device whose
\* counter was still positive.
ThrottleSurvivesReconnect ==
    \E i \in Devices :
        /\ call.op = "connectToServer" /\ call.dev = i
        /\ call.returned
        /\ ble[i].epoch = 2
        /\ jkBmsDevices[i].ignoreNotifyCount > 0

====
